---- MODULE Spec2Model ----
(***************************************************************************)
(* Period normalisation and aggregation pipeline of statbelmail            *)
(* (src/src/date_utils.py, src/src/building_permits_report.py).            *)
(*                                                                         *)
(* A Python str is a sequence of one-character strings, so that lower(),   *)
(* strip(), zfill(), concatenation and parsing are computed, not assumed.  *)
(* A DataFrame is its column names, its index labels and its rows.         *)
(***************************************************************************)
EXTENDS Integers, Sequences, FiniteSets, TLC

VARIABLES
    df,      \* the caller's input DataFrame
    call,    \* the call made last: [fn |-> name, args |-> its arguments]
    ret,     \* what that call returned or raised
    batch    \* the run of generate_all_reports: its position, its lists, the files written

vars == <<df, call, ret, batch>>

(***************************************************************************)
(* Python values                                                           *)
(***************************************************************************)
LowerLetters == <<"a","b","c","d","e","f","g","h","i","j","k","l","m",
                  "n","o","p","q","r","s","t","u","v","w","x","y","z">>
UpperLetters == <<"A","B","C","D","E","F","G","H","I","J","K","L","M",
                  "N","O","P","Q","R","S","T","U","V","W","X","Y","Z">>
DigitChars   == <<"0","1","2","3","4","5","6","7","8","9">>
Whitespace   == {" ", "\t", "\n"}

Range(f) == {f[i] : i \in DOMAIN f}

\* str.lower() / str.upper() on one character
ToLower == [c \in Range(UpperLetters) |-> LowerLetters[CHOOSE i \in 1..26 : UpperLetters[i] = c]]
ToUpper == [c \in Range(LowerLetters) |-> UpperLetters[CHOOSE i \in 1..26 : LowerLetters[i] = c]]
LowerChar(c) == IF c \in DOMAIN ToLower THEN ToLower[c] ELSE c
UpperChar(c) == IF c \in DOMAIN ToUpper THEN ToUpper[c] ELSE c

str_lower(s) == [i \in 1..Len(s) |-> LowerChar(s[i])]

\* str.strip(): drop the leading and the trailing run of whitespace
str_strip(s) ==
    LET nonws == {i \in 1..Len(s) : s[i] \notin Whitespace}
    IN  IF nonws = {} THEN <<>>
        ELSE LET a == CHOOSE i \in nonws : \A j \in nonws : i <= j
                 b == CHOOSE i \in nonws : \A j \in nonws : i >= j
             IN  SubSeq(s, a, b)

\* str(n) of a Python int
RECURSIVE NatToStr(_)
NatToStr(n) ==
    IF n < 10 THEN <<DigitChars[n + 1]>>
    ELSE NatToStr(n \div 10) \o <<DigitChars[(n % 10) + 1]>>
int_str(n) == IF n < 0 THEN <<"-">> \o NatToStr(-n) ELSE NatToStr(n)

\* Variant of str_zfill: no padding
str_zfill_none(s, width) == s

\* str.zfill(width): left-pad with "0" up to width (sign handling not needed:
\* the month numbers it is applied to are positive)
RECURSIVE str_zfill(_, _)
str_zfill(s, width) ==
    IF Len(s) >= width THEN s ELSE str_zfill(<<"0">> \o s, width)

\* Cells of a DataFrame column of dtype object / int64
PyStr(s) == [kind |-> "str",   s |-> s]
PyInt(n) == [kind |-> "int",   s |-> int_str(n)]
PyNone   == [kind |-> "None",  s |-> <<>>]
PyNaN    == [kind |-> "float", s |-> <<"n","a","n">>]

pd_isna(x) == x = PyNone \/ x = PyNaN
isinstance_str(x) == x.kind = "str"

\* A call either returns a value or raises an exception with a message.
\* msg is the constant part of the message (the text before the interpolated
\* argument of the f-string).
\* arg is the interpolated argument.
Return(v)      == [exc |-> "", msg |-> "", arg |-> <<>>, val |-> v]
Raise(e, m, a) == [exc |-> e,  msg |-> m,  arg |-> a,    val |-> <<>>]
Raised(r)      == r.exc # ""

\* Optional arguments: None, or a value
None      == {}
Some(x)   == {x}
TheVal(o) == CHOOSE x \in o : TRUE

\* int(s) of a string of decimal digits
DigitVal(c) == (CHOOSE i \in 1..10 : DigitChars[i] = c) - 1
RECURSIVE str_int(_)
str_int(s) ==
    IF Len(s) = 0 THEN 0
    ELSE 10 * str_int(SubSeq(s, 1, Len(s) - 1)) + DigitVal(s[Len(s)])

\* s.split(sep) for a one-character separator
RECURSIVE str_split(_, _)
str_split(s, sep) ==
    LET at == {i \in 1..Len(s) : s[i] = sep}
    IN  IF at = {} THEN <<s>>
        ELSE LET p == CHOOSE i \in at : \A j \in at : i <= j
             IN  <<SubSeq(s, 1, p - 1)>> \o str_split(SubSeq(s, p + 1, Len(s)), sep)

\* Order of characters by code point, and of strings as Python compares them
CodeOrder ==
    <<"\t", "\n", " ", "-", "/">> \o DigitChars \o UpperLetters \o <<"_">> \o LowerLetters
Ord(c) == CHOOSE i \in 1..Len(CodeOrder) : CodeOrder[i] = c
str_lt(a, b) ==
    \E p \in 1..(Len(a) + 1) :
        /\ p <= Len(b)
        /\ \A i \in 1..(p - 1) : a[i] = b[i]
        /\ (p = Len(a) + 1 \/ Ord(a[p]) < Ord(b[p]))

RECURSIVE SumSeq(_)
SumSeq(s) == IF Len(s) = 0 THEN 0 ELSE s[1] + SumSeq(Tail(s))

(***************************************************************************)
(* pandas DataFrame: [columns, index, rows]; rows[i] maps a column name to *)
(* the cell of row i, index[i] is the label of row i.                      *)
(***************************************************************************)
DataFrame(columns, index, rows) ==
    [columns |-> columns, index |-> index, rows |-> rows]

HasColumn(d, col) == col \in Range(d.columns)

\* d[col] = series : add the column, or overwrite it when it exists
SetColumn(d, col, series) ==
    DataFrame(IF HasColumn(d, col) THEN d.columns ELSE Append(d.columns, col),
              d.index,
              [i \in 1..Len(d.rows) |-> (col :> series[i]) @@ d.rows[i]])

\* d[mask] : the rows whose position is in keep, in their order, index kept
RECURSIVE PickSeq(_, _, _)
PickSeq(s, keep, i) ==
    IF i > Len(s) THEN <<>>
    ELSE (IF i \in keep THEN <<s[i]>> ELSE <<>>) \o PickSeq(s, keep, i + 1)
BoolIndex(d, keep) ==
    DataFrame(d.columns, PickSeq(d.index, keep, 1), PickSeq(d.rows, keep, 1))

\* pd.to_datetime of "Y-M-D"
Timestamp(y, m, d) == [year |-> y, month |-> m, day |-> d]
\* Variant of pd_to_datetime: day first, "Y-D-M"
pd_to_datetime_dayfirst(s) ==
    LET parts == str_split(s, "-")
    IN  [year |-> str_int(parts[1]), month |-> str_int(parts[3]), day |-> str_int(parts[2])]
pd_to_datetime(s) ==
    LET parts == str_split(s, "-")
    IN  Timestamp(str_int(parts[1]), str_int(parts[2]), str_int(parts[3]))
Timestamp_lt(a, b) ==
    \/ a.year < b.year
    \/ a.year = b.year /\ a.month < b.month
    \/ a.year = b.year /\ a.month = b.month /\ a.day < b.day

(***************************************************************************)
(* date_utils.py: Period Normalizer                                        *)
(***************************************************************************)
DUTCH_MONTHS ==
    ( <<"j","a","n","u","a","r","i">>         :> 1  @@ <<"j","a","n">> :> 1
   @@ <<"f","e","b","r","u","a","r","i">>     :> 2  @@ <<"f","e","b">> :> 2
   @@ <<"m","a","a","r","t">>                 :> 3  @@ <<"m","r","t">> :> 3
   @@ <<"a","p","r","i","l">>                 :> 4  @@ <<"a","p","r">> :> 4
   @@ <<"m","e","i">>                         :> 5
   @@ <<"j","u","n","i">>                     :> 6  @@ <<"j","u","n">> :> 6
   @@ <<"j","u","l","i">>                     :> 7  @@ <<"j","u","l">> :> 7
   @@ <<"a","u","g","u","s","t","u","s">>     :> 8  @@ <<"a","u","g">> :> 8
   @@ <<"s","e","p","t","e","m","b","e","r">> :> 9  @@ <<"s","e","p">> :> 9
   @@ <<"o","k","t","o","b","e","r">>         :> 10 @@ <<"o","k","t">> :> 10
   @@ <<"n","o","v","e","m","b","e","r">>     :> 11 @@ <<"n","o","v">> :> 11
   @@ <<"d","e","c","e","m","b","e","r">>     :> 12 @@ <<"d","e","c">> :> 12 )

\* Variants of dutch_month_to_number: the label is not stripped; the
\* missing / non-string guard is absent
dutch_month_to_number_unstripped(month_name) ==
    IF pd_isna(month_name) \/ ~isinstance_str(month_name)
    THEN Raise("ValueError", "Invalid month name: ", month_name)
    ELSE LET month_clean == str_lower(month_name.s)
         IN  IF month_clean \in DOMAIN DUTCH_MONTHS
             THEN Return(DUTCH_MONTHS[month_clean])
             ELSE Raise("ValueError", "Unknown Dutch month name: ", month_name)
dutch_month_to_number_unguarded(month_name) ==
    LET month_clean == str_strip(str_lower(month_name.s))
    IN  IF month_clean \in DOMAIN DUTCH_MONTHS
        THEN Return(DUTCH_MONTHS[month_clean])
        ELSE Raise("ValueError", "Unknown Dutch month name: ", month_name)

dutch_month_to_number(month_name) ==
    IF pd_isna(month_name) \/ ~isinstance_str(month_name)
    THEN Raise("ValueError", "Invalid month name: ", month_name)
    ELSE LET month_clean == str_strip(str_lower(month_name.s))
         IN  IF month_clean \in DOMAIN DUTCH_MONTHS
             THEN Return(DUTCH_MONTHS[month_clean])
             ELSE Raise("ValueError", "Unknown Dutch month name: ", month_name)

\* DUTCH_MONTH_NAMES: the full name of each month number
DUTCH_MONTH_NAMES ==
    << <<"J","a","n","u","a","r","i">>, <<"F","e","b","r","u","a","r","i">>,
       <<"M","a","a","r","t">>, <<"A","p","r","i","l">>, <<"M","e","i">>,
       <<"J","u","n","i">>, <<"J","u","l","i">>, <<"A","u","g","u","s","t","u","s">>,
       <<"S","e","p","t","e","m","b","e","r">>, <<"O","k","t","o","b","e","r">>,
       <<"N","o","v","e","m","b","e","r">>, <<"D","e","c","e","m","b","e","r">> >>

\* Variant of quarter_of: month_num // 3 + 1
quarter_of_unshifted(month_num) == (month_num \div 3) + 1

\* ((month_num - 1) // 3 + 1)
quarter_of(month_num) == ((month_num - 1) \div 3) + 1

get_quarter_from_month(month_name) ==
    LET month_num == dutch_month_to_number(month_name)
    IN  IF Raised(month_num) THEN month_num
        ELSE Return(<<"Q">> \o int_str(quarter_of(month_num.val)))

(***************************************************************************)
(* date_utils.py: Period Column Synthesizer and Period Filter              *)
(***************************************************************************)
\* Variant of apply_result: every row is tried and the last error is raised
apply_result_last(r) ==
    LET bad == {i \in DOMAIN r : Raised(r[i])}
    IN  IF bad # {}
        THEN r[CHOOSE i \in bad : \A j \in bad : i >= j]
        ELSE Return([i \in DOMAIN r |-> r[i].val])

\* Series.apply(f): the results row by row; the first row that raises ends it
apply_result(r) ==
    LET bad == {i \in DOMAIN r : Raised(r[i])}
    IN  IF bad # {}
        THEN r[CHOOSE i \in bad : \A j \in bad : i <= j]
        ELSE Return([i \in DOMAIN r |-> r[i].val])

\* df[month_col].apply(dutch_month_to_number)
apply_dutch_month_to_number(d, month_col) ==
    apply_result([i \in 1..Len(d.rows) |-> dutch_month_to_number(d.rows[i][month_col])])

\* pd.to_datetime(year + '-' + month_number + '-' + day), row by row
dates_from(d, year_col, day, month_numbers) ==
    IF Raised(month_numbers) THEN month_numbers
    ELSE Return([i \in 1..Len(d.rows) |->
            pd_to_datetime(int_str(d.rows[i][year_col]) \o <<"-">>
                           \o int_str(month_numbers.val[i]) \o <<"-">>
                           \o int_str(day))])

\* Variant of create_date_from_columns: the year column is not checked, its
\* absence shows when the column is read, after the labels are converted
create_date_from_columns_year_unchecked(d, year_col, month_col, day) ==
    IF ~HasColumn(d, month_col)
    THEN Raise("ValueError", "Month column not found in DataFrame: ", month_col)
    ELSE IF Raised(apply_dutch_month_to_number(d, month_col))
    THEN apply_dutch_month_to_number(d, month_col)
    ELSE IF ~HasColumn(d, year_col) THEN Raise("KeyError", "", year_col)
    ELSE dates_from(d, year_col, day, apply_dutch_month_to_number(d, month_col))

create_date_from_columns(d, year_col, month_col, day) ==
    IF ~HasColumn(d, year_col)
    THEN Raise("ValueError", "Year column not found in DataFrame: ", year_col)
    ELSE IF ~HasColumn(d, month_col)
    THEN Raise("ValueError", "Month column not found in DataFrame: ", month_col)
    ELSE dates_from(d, year_col, day, apply_dutch_month_to_number(d, month_col))

\* d[col] = series, where computing the series may have raised
assign_column(d, col, series) ==
    IF Raised(series) THEN series ELSE Return(SetColumn(d, col, series.val))

add_date_column(d, year_col, month_col, date_col_name, day) ==
    assign_column(d, date_col_name, create_date_from_columns(d, year_col, month_col, day))

\* the 'month' and 'quarter' strings of create_period_column
period_strings(d, year_col, period_type, month_numbers) ==
    IF Raised(month_numbers) THEN month_numbers
    ELSE IF ~HasColumn(d, year_col) THEN Raise("KeyError", "", year_col)
    ELSE IF period_type = "month"
    THEN Return([i \in 1..Len(d.rows) |->
            int_str(d.rows[i][year_col]) \o <<"-">>
            \o str_zfill(int_str(month_numbers.val[i]), 2)])
    ELSE Return([i \in 1..Len(d.rows) |->
            int_str(d.rows[i][year_col]) \o <<"-", "Q">>
            \o int_str(quarter_of(month_numbers.val[i]))])

create_period_column(d, year_col, month_col, period_type) ==
    IF period_type = "year"
    THEN IF ~HasColumn(d, year_col) THEN Raise("KeyError", "", year_col)
         ELSE Return([i \in 1..Len(d.rows) |-> int_str(d.rows[i][year_col])])
    ELSE IF period_type \in {"month", "quarter"}
    THEN IF ~HasColumn(d, month_col) THEN Raise("KeyError", "", month_col)
         ELSE period_strings(d, year_col, period_type,
                             apply_dutch_month_to_number(d, month_col))
    ELSE Raise("ValueError", "Unknown period_type: ", period_type)

\* label + ' ' + str(year); a missing label stays missing
display_cell(x, jaar) ==
    IF isinstance_str(x) THEN PyStr(x.s \o <<" ">> \o int_str(jaar)) ELSE PyNaN
\* x[:3] if isinstance(x, str) else x
short_month(x) ==
    IF isinstance_str(x)
    THEN PyStr(SubSeq(x.s, 1, IF Len(x.s) < 3 THEN Len(x.s) ELSE 3))
    ELSE x

format_period_for_display(d, year_col, month_col, format_type) ==
    IF format_type = "full"
    THEN Return([i \in 1..Len(d.rows) |->
            display_cell(d.rows[i][month_col], d.rows[i][year_col])])
    ELSE IF format_type = "short"
    THEN Return([i \in 1..Len(d.rows) |->
            display_cell(short_month(d.rows[i][month_col]), d.rows[i][year_col])])
    ELSE IF format_type = "compact"
    THEN create_period_column(d, year_col, month_col, "month")
    ELSE Raise("ValueError", "Unknown format_type: ", format_type)

\* standardize_date_columns, statement by statement; r is the df_result so
\* far, or the exception raised on the way
add_periode_display(r, year_col, month_col) ==
    IF Raised(r) THEN r
    ELSE assign_column(r.val, "periode_display",
                       format_period_for_display(r.val, year_col, month_col, "full"))
add_kwartaal(r, year_col, month_col) ==
    IF Raised(r) THEN r
    ELSE add_periode_display(
            assign_column(r.val, "kwartaal",
                          create_period_column(r.val, year_col, month_col, "quarter")),
            year_col, month_col)
add_periode(r, year_col, month_col) ==
    IF Raised(r) THEN r
    ELSE add_kwartaal(
            assign_column(r.val, "periode",
                          create_period_column(r.val, year_col, month_col, "month")),
            year_col, month_col)

standardize_date_columns(d, year_col, month_col) ==
    add_periode(add_date_column(d, year_col, month_col, "datum", 1), year_col, month_col)

\* df_filtered[df_filtered[year_col] >= start_year]
filter_start_year(d, year_col, start_year) ==
    IF start_year # None
    THEN BoolIndex(d, {i \in 1..Len(d.rows) : d.rows[i][year_col] >= TheVal(start_year)})
    ELSE d
\* df_filtered[df_filtered[year_col] <= end_year]
filter_end_year(d, year_col, end_year) ==
    IF end_year # None
    THEN BoolIndex(d, {i \in 1..Len(d.rows) : d.rows[i][year_col] <= TheVal(end_year)})
    ELSE d
\* Variant of filter_months: the labels are compared in lower case
filter_months_caseless(d, month_col, months) ==
    IF months # None
    THEN BoolIndex(d, {i \in 1..Len(d.rows) :
                          /\ isinstance_str(d.rows[i][month_col])
                          /\ str_lower(d.rows[i][month_col].s)
                                \in {str_lower(x) : x \in Range(TheVal(months))}})
    ELSE d
\* df_filtered[df_filtered[month_col].isin(months)]
filter_months(d, month_col, months) ==
    IF months # None
    THEN BoolIndex(d, {i \in 1..Len(d.rows) :
                          /\ isinstance_str(d.rows[i][month_col])
                          /\ d.rows[i][month_col].s \in Range(TheVal(months))})
    ELSE d

filter_by_period(d, year_col, month_col, start_year, end_year, months) ==
    IF (start_year # None \/ end_year # None) /\ ~HasColumn(d, year_col)
    THEN Raise("KeyError", "", year_col)
    ELSE IF months # None /\ ~HasColumn(d, month_col)
    THEN Raise("KeyError", "", month_col)
    ELSE Return(filter_months(
              filter_end_year(filter_start_year(d, year_col, start_year), year_col, end_year),
              month_col, months))

(***************************************************************************)
(* building_permits_report.py: Aggregation Engine and Rolling Metrics      *)
(* Engine.  The column 'aantal gebouwen met een woning' is the source's    *)
(* 'aantal gebouwen met één woning'.                                       *)
(***************************************************************************)
\* The derived metrics of load_and_prepare_data
add_aantal_huizen(d) ==
    SetColumn(d, "aantal_huizen",
              [i \in 1..Len(d.rows) |-> d.rows[i]["aantal gebouwen met een woning"]])
\* Variant of add_aantal_flats: a negative difference becomes 0
add_aantal_flats_clamped(d) ==
    SetColumn(d, "aantal_flats",
              [i \in 1..Len(d.rows) |->
                  IF d.rows[i]["aantal woningen"] < d.rows[i]["aantal gebouwen met een woning"]
                  THEN 0
                  ELSE d.rows[i]["aantal woningen"]
                       - d.rows[i]["aantal gebouwen met een woning"]])
add_aantal_flats(d) ==
    SetColumn(d, "aantal_flats",
              [i \in 1..Len(d.rows) |-> d.rows[i]["aantal woningen"]
                                        - d.rows[i]["aantal gebouwen met een woning"]])
add_alle_woningen(d) ==
    SetColumn(d, "alle_woningen",
              [i \in 1..Len(d.rows) |-> d.rows[i]["aantal woningen"]])
derived_metrics(std) ==
    IF Raised(std) THEN std
    ELSE Return(add_alle_woningen(add_aantal_flats(add_aantal_huizen(std.val))))

\* load_and_prepare_data: standardized_data, or the exception of
\* standardize_date_columns
load_and_prepare_data(data) ==
    derived_metrics(standardize_date_columns(data, "jaar", "maand"))

\* standardized_data[standardized_data['regio'] == region_name].copy()
region_data_of(standardized_data, region_name) ==
    BoolIndex(standardized_data,
              {i \in 1..Len(standardized_data.rows) :
                  standardized_data.rows[i]["regio"] = region_name})

\* Variant of from_2015: region_data['jaar'] > 2015
from_2015_exclusive(region_data) ==
    BoolIndex(region_data,
              {i \in 1..Len(region_data.rows) : region_data.rows[i]["jaar"] > 2015})

\* region_data[region_data['jaar'] >= 2015].copy()
from_2015(region_data) ==
    BoolIndex(region_data,
              {i \in 1..Len(region_data.rows) : region_data.rows[i]["jaar"] >= 2015})

\* The order of the values of a column: years as numbers, dates as dates,
\* strings as Python compares them
ValueLt(col, x, y) ==
    IF col = "jaar" THEN x < y
    ELSE IF col = "datum" THEN Timestamp_lt(x, y)
    ELSE IF col = "maand" THEN str_lt(x.s, y.s)
    ELSE str_lt(x, y)
\* The order of key tuples: by the first key, then by the next
KeyLt(keys, a, b) ==
    \E j \in 1..Len(keys) :
        /\ \A h \in 1..(j - 1) : a[h] = b[h]
        /\ ValueLt(keys[j], a[j], b[j])

\* The key tuple of a row, and the distinct key tuples in ascending order
KeyOf(row, keys) == [j \in 1..Len(keys) |-> row[keys[j]]]
SortedKeys(groups, keys) ==
    [p \in 1..Cardinality(groups) |->
        CHOOSE k \in groups : Cardinality({g \in groups : KeyLt(keys, g, k)}) = p - 1]

\* Variant of GroupTotal: agg 'first' in place of 'sum'
GroupTotal_first(d, keys, k, metric) ==
    LET members == {i \in 1..Len(d.rows) : KeyOf(d.rows[i], keys) = k}
    IN  d.rows[CHOOSE i \in members : \A j \in members : i <= j][metric]

\* The sum of a metric over the rows of d with key tuple k
GroupTotal(d, keys, k, metric) ==
    SumSeq(PickSeq([i \in 1..Len(d.rows) |-> d.rows[i][metric]],
                   {i \in 1..Len(d.rows) : KeyOf(d.rows[i], keys) = k}, 1))

GroupRow(d, keys, metrics, k) ==
    [c \in Range(keys) \cup Range(metrics) |->
        IF c \in Range(keys)
        THEN k[CHOOSE j \in 1..Len(keys) : keys[j] = c]
        ELSE GroupTotal(d, keys, k, c)]

GroupRows(d, keys, metrics, sorted) ==
    DataFrame(keys \o metrics,
              [p \in 1..Len(sorted) |-> p - 1],
              [p \in 1..Len(sorted) |-> GroupRow(d, keys, metrics, sorted[p])])

\* d.groupby(keys).agg({m: 'sum' for m in metrics}).reset_index(): one row per
\* distinct key tuple, in ascending key order.  The keys are never missing
\* here: standardize_date_columns has accepted every row.
GroupBySum(d, keys, metrics) ==
    GroupRows(d, keys, metrics,
              SortedKeys({KeyOf(d.rows[i], keys) : i \in 1..Len(d.rows)}, keys))

\* The position of the row that d.sort_values(col) puts at position p; rows
\* with equal values keep their order
SortedPosition(d, col, p) ==
    CHOOSE i \in 1..Len(d.rows) :
        Cardinality({j \in 1..Len(d.rows) :
            \/ ValueLt(col, d.rows[j][col], d.rows[i][col])
            \/ (~ValueLt(col, d.rows[i][col], d.rows[j][col]) /\ j < i)}) = p - 1

\* d.sort_values(col)
SortValues(d, col) ==
    DataFrame(d.columns,
              [p \in 1..Len(d.rows) |-> d.index[SortedPosition(d, col, p)]],
              [p \in 1..Len(d.rows) |-> d.rows[SortedPosition(d, col, p)]])

Metrics == <<"aantal_huizen", "aantal_flats", "alle_woningen">>

\* create_quarterly_chart: the quarterly_data the three traces are drawn from
create_quarterly_chart(region_data) ==
    Return(SortValues(GroupBySum(from_2015(region_data), <<"kwartaal">>, Metrics),
                      "kwartaal"))

\* Series.str.extract(r'Q(\d)')[0]: the digit after the first 'Q' that a
\* digit follows, missing when there is none
str_extract_Q_digit(s) ==
    LET hits == {p \in 1..(Len(s) - 1) : s[p] = "Q" /\ s[p + 1] \in Range(DigitChars)}
    IN  IF hits = {} THEN PyNaN
        ELSE PyStr(<<s[(CHOOSE p \in hits : \A r \in hits : p <= r) + 1]>>)

\* yearly_quarterly['quarter_num'] = yearly_quarterly['kwartaal'].str.extract(...)
add_quarter_num(yearly_quarterly) ==
    SetColumn(yearly_quarterly, "quarter_num",
              [i \in 1..Len(yearly_quarterly.rows) |->
                  str_extract_Q_digit(yearly_quarterly.rows[i]["kwartaal"])])

Quarters == <<"1", "2", "3", "4">>

\* Variant of row_total: the sum of the first three quarter cells
row_total_first_three(cells) == SumSeq(SubSeq(cells, 1, 3))

\* pivot_table.sum(axis=1) over the columns '1', '2', '3', '4'
row_total(cells) == SumSeq(cells)

\* pivot(index='jaar', columns='quarter_num', values='alle_woningen') raises
\* when an (index, column) pair occurs twice
pivot_duplicate(yq) ==
    \E i, j \in 1..Len(yq.rows) :
        /\ i # j
        /\ yq.rows[i]["jaar"] = yq.rows[j]["jaar"]
        /\ yq.rows[i]["quarter_num"] = yq.rows[j]["quarter_num"]

\* The cell of year y and quarter column q after .fillna(0) and after a
\* quarter that is no column has become a column of 0
pivot_cell(yq, y, q) ==
    LET at == {i \in 1..Len(yq.rows) : /\ yq.rows[i]["jaar"] = y
                                       /\ yq.rows[i]["quarter_num"] = PyStr(<<q>>)}
    IN  IF at # {} THEN yq.rows[CHOOSE i \in at : TRUE]["alle_woningen"] ELSE 0

\* pivot_table[['1', '2', '3', '4']] of year y
pivot_row(yq, y) == [j \in 1..Len(Quarters) |-> pivot_cell(yq, y, Quarters[j])]

\* for year in sorted(pivot_table.index)
sorted_years(years) ==
    [p \in 1..Cardinality(years) |->
        CHOOSE y \in years : Cardinality({z \in years : z < y}) = p - 1]

\* One <tr> per year: <<year, Q1, Q2, Q3, Q4, Totaal>>
table_rows(yq, years) ==
    [p \in 1..Len(years) |->
        <<years[p]>> \o pivot_row(yq, years[p]) \o <<row_total(pivot_row(yq, years[p]))>>]

pivot_table_rows(yq) ==
    IF pivot_duplicate(yq)
    THEN Raise("ValueError", "Index contains duplicate entries, cannot reshape", <<>>)
    ELSE Return(table_rows(yq, sorted_years({yq.rows[i]["jaar"] : i \in 1..Len(yq.rows)})))

\* create_yearly_quarterly_table: the <tr> rows of the table
create_yearly_quarterly_table(region_data) ==
    pivot_table_rows(
        add_quarter_num(GroupBySum(from_2015(region_data), <<"jaar", "kwartaal">>,
                                   <<"alle_woningen">>)))

\* month_mapping of create_rolling_average_chart
month_mapping ==
    ( <<"J","a","n","u","a","r","i">>         :> 1
   @@ <<"F","e","b","r","u","a","r","i">>     :> 2
   @@ <<"M","a","a","r","t">>                 :> 3
   @@ <<"A","p","r","i","l">>                 :> 4
   @@ <<"M","e","i">>                         :> 5
   @@ <<"J","u","n","i">>                     :> 6
   @@ <<"J","u","l","i">>                     :> 7
   @@ <<"A","u","g","u","s","t","u","s">>     :> 8
   @@ <<"S","e","p","t","e","m","b","e","r">> :> 9
   @@ <<"O","k","t","o","b","e","r">>         :> 10
   @@ <<"N","o","v","e","m","b","e","r">>     :> 11
   @@ <<"D","e","c","e","m","b","e","r">>     :> 12 )

\* A float64 mean is the pair sum / number of observations; NaN is 0 / 0
Mean(sum_x, nobs) == [num |-> sum_x, den |-> nobs]
MeanNaN == Mean(0, 0)

\* Series.rolling(window, min_periods).mean() as pandas computes it: one pass
\* that adds the value entering the window and removes the value leaving it
RECURSIVE roll_mean(_, _, _, _, _, _)
roll_mean(values, window, min_periods, i, sum_x, nobs) ==
    IF i > Len(values) THEN <<>>
    ELSE LET leaving == i > window
             sum1    == sum_x + values[i] - (IF leaving THEN values[i - window] ELSE 0)
             nobs1   == nobs + 1 - (IF leaving THEN 1 ELSE 0)
             out     == IF nobs1 >= min_periods /\ nobs1 > 0
                        THEN Mean(sum1, nobs1) ELSE MeanNaN
         IN  <<out>> \o roll_mean(values, window, min_periods, i + 1, sum1, nobs1)

\* Variant of rolling_mean: an expanding mean, no value ever leaves the window
rolling_mean_expanding(values, window, min_periods) ==
    roll_mean(values, Len(values) + 1, min_periods, 1, 0, 0)

rolling_mean(values, window, min_periods) ==
    roll_mean(values, window, min_periods, 1, 0, 0)

\* monthly_data['maand'].map(month_mapping): the number, or missing (None)
add_maand_nummer(monthly_data) ==
    SetColumn(monthly_data, "maand_nummer",
              [i \in 1..Len(monthly_data.rows) |->
                  IF monthly_data.rows[i]["maand"].s \in DOMAIN month_mapping
                  THEN Some(month_mapping[monthly_data.rows[i]["maand"].s])
                  ELSE None])

\* Variant of dropna_maand_nummer: one unmapped label empties the series
dropna_maand_nummer_all(monthly_data) ==
    BoolIndex(monthly_data,
              {i \in 1..Len(monthly_data.rows) :
                  \A j \in 1..Len(monthly_data.rows) :
                      monthly_data.rows[j]["maand_nummer"] # None})

\* monthly_data.dropna(subset=['maand_nummer'])
dropna_maand_nummer(monthly_data) ==
    BoolIndex(monthly_data,
              {i \in 1..Len(monthly_data.rows) : monthly_data.rows[i]["maand_nummer"] # None})

\* pd.to_datetime(jaar + '-' + maand_nummer.astype(int).astype(str).zfill(2) + '-01')
add_datum(monthly_data) ==
    SetColumn(monthly_data, "datum",
              [i \in 1..Len(monthly_data.rows) |->
                  pd_to_datetime(
                      int_str(monthly_data.rows[i]["jaar"]) \o <<"-">>
                      \o str_zfill(int_str(TheVal(monthly_data.rows[i]["maand_nummer"])), 2)
                      \o <<"-", "0", "1">>)])

\* monthly_data[rolling] = monthly_data[metric].rolling(window=12, min_periods=1).mean()
add_rolling(monthly_data, rolling, metric) ==
    SetColumn(monthly_data, rolling,
              rolling_mean([i \in 1..Len(monthly_data.rows) |-> monthly_data.rows[i][metric]],
                           12, 1))

\* create_rolling_average_chart: the monthly_data the traces are drawn from
create_rolling_average_chart(region_data) ==
    Return(
      add_rolling(
        add_rolling(
          add_rolling(
            SortValues(
              add_datum(dropna_maand_nummer(add_maand_nummer(
                GroupBySum(from_2015(region_data), <<"jaar", "maand">>,
                           <<"alle_woningen", "aantal_huizen", "aantal_flats">>)))),
              "datum"),
            "rolling_alle_woningen", "alle_woningen"),
          "rolling_aantal_huizen", "aantal_huizen"),
        "rolling_aantal_flats", "aantal_flats"))

(***************************************************************************)
(* DataFrames as objects.  A Python DataFrame is a mutable object that     *)
(* the caller and the callee share by reference: h is the sequence of the  *)
(* DataFrame objects allocated so far, a reference is a position in h.     *)
(* A function on objects yields [heap, ret]: the objects after the call    *)
(* and Return(reference) or the exception raised.                          *)
(***************************************************************************)
\* Variant of df_copy: no copy is made, the result is the object itself
df_copy_alias(h, r) == [heap |-> h, ref |-> r]

\* df.copy(): a new object with the columns and cells of object r
df_copy(h, r) == [heap |-> Append(h, h[r]), ref |-> Len(h) + 1]

\* obj[col] = series, in place on object c; evaluating the right-hand side
\* may have raised
setitem(h, c, col, series) ==
    IF Raised(series) THEN [heap |-> h, ret |-> series]
    ELSE [heap |-> [h EXCEPT ![c] = SetColumn(h[c], col, series.val)],
          ret  |-> Return(c)]

\* An expression that builds a new DataFrame (boolean indexing)
new_object(h, v) ==
    IF Raised(v) THEN [heap |-> h, ret |-> v]
    ELSE [heap |-> Append(h, v.val), ret |-> Return(Len(h) + 1)]

\* The value the caller reads through the returned reference
Deref(s) == IF Raised(s.ret) THEN s.ret ELSE Return(s.heap[s.ret.val])

\* add_date_column: df_copy = df.copy(); df_copy[date_col_name] = ...; return df_copy
add_date_column_to(c, year_col, month_col, date_col_name, day) ==
    setitem(c.heap, c.ref, date_col_name,
            create_date_from_columns(c.heap[c.ref], year_col, month_col, day))
add_date_column_obj(h, r, year_col, month_col, date_col_name, day) ==
    add_date_column_to(df_copy(h, r), year_col, month_col, date_col_name, day)

\* standardize_date_columns: df_result = df.copy(); df_result = add_date_column(
\* df_result, ...); then the three column assignments on df_result
\* Variant of set_periode_display: the display text is assigned to the
\* month column
set_periode_display_on_label(s, year_col, month_col) ==
    IF Raised(s.ret) THEN s
    ELSE setitem(s.heap, s.ret.val, month_col,
                 format_period_for_display(s.heap[s.ret.val], year_col, month_col, "full"))
set_periode_display(s, year_col, month_col) ==
    IF Raised(s.ret) THEN s
    ELSE setitem(s.heap, s.ret.val, "periode_display",
                 format_period_for_display(s.heap[s.ret.val], year_col, month_col, "full"))
set_kwartaal(s, year_col, month_col) ==
    IF Raised(s.ret) THEN s
    ELSE set_periode_display(
            setitem(s.heap, s.ret.val, "kwartaal",
                    create_period_column(s.heap[s.ret.val], year_col, month_col, "quarter")),
            year_col, month_col)
set_periode(s, year_col, month_col) ==
    IF Raised(s.ret) THEN s
    ELSE set_kwartaal(
            setitem(s.heap, s.ret.val, "periode",
                    create_period_column(s.heap[s.ret.val], year_col, month_col, "month")),
            year_col, month_col)
standardize_date_columns_on(c, year_col, month_col) ==
    set_periode(add_date_column_obj(c.heap, c.ref, year_col, month_col, "datum", 1),
                year_col, month_col)
standardize_date_columns_obj(h, r, year_col, month_col) ==
    standardize_date_columns_on(df_copy(h, r), year_col, month_col)

\* filter_by_period: df_filtered = df.copy(); every mask that is applied
\* rebinds df_filtered to a new object
filter_by_period_on(c, year_col, month_col, start_year, end_year, months) ==
    IF start_year = None /\ end_year = None /\ months = None
    THEN [heap |-> c.heap, ret |-> Return(c.ref)]
    ELSE new_object(c.heap, filter_by_period(c.heap[c.ref], year_col, month_col,
                                             start_year, end_year, months))
filter_by_period_obj(h, r, year_col, month_col, start_year, end_year, months) ==
    filter_by_period_on(df_copy(h, r), year_col, month_col, start_year, end_year, months)

\* pd.api.types.is_datetime64_any_dtype: of the columns of these tables only
\* 'datum' holds datetimes
is_datetime64_any_dtype(col) == col = "datum"

\* pd.to_datetime of a 'YYYY-MM' string: the first day of the month
pd_to_datetime_month(s) == pd_to_datetime(s \o <<"-", "1">>)

\* if not is_datetime64_any_dtype(df_copy[date_col]):
\*     df_copy[date_col] = pd.to_datetime(df_copy[date_col])
ensure_datetime(c, date_col) ==
    IF ~HasColumn(c.heap[c.ref], date_col)
    THEN [heap |-> c.heap, ret |-> Raise("KeyError", "", date_col)]
    ELSE IF is_datetime64_any_dtype(date_col)
    THEN [heap |-> c.heap, ret |-> Return(c.ref)]
    ELSE setitem(c.heap, c.ref, date_col,
                 Return([i \in 1..Len(c.heap[c.ref].rows) |->
                            pd_to_datetime_month(c.heap[c.ref].rows[i][date_col])]))

\* df_copy[year_col] = df_copy[date_col].dt.year
set_year(s, date_col, year_col) ==
    IF Raised(s.ret) THEN s
    ELSE setitem(s.heap, s.ret.val, year_col,
                 Return([i \in 1..Len(s.heap[s.ret.val].rows) |->
                            s.heap[s.ret.val].rows[i][date_col].year]))

\* df_copy[month_col] = df_copy[date_col].dt.month.map(DUTCH_MONTH_NAMES), or
\* df_copy[date_col].dt.month
set_month(s, date_col, month_col, dutch_months) ==
    IF Raised(s.ret) THEN s
    ELSE setitem(s.heap, s.ret.val, month_col,
                 Return([i \in 1..Len(s.heap[s.ret.val].rows) |->
                            IF dutch_months
                            THEN PyStr(DUTCH_MONTH_NAMES[s.heap[s.ret.val].rows[i][date_col].month])
                            ELSE s.heap[s.ret.val].rows[i][date_col].month]))

extract_year_month_from_date_obj(h, r, date_col, year_col, month_col, dutch_months) ==
    set_month(set_year(ensure_datetime(df_copy(h, r), date_col), date_col, year_col),
              date_col, month_col, dutch_months)

(***************************************************************************)
(* Calls                                                                   *)
(***************************************************************************)
\* A behaviour is the input table followed by one call on it.  The pure
\* functions read df and leave it as it is.  The functions that copy and
\* assign columns get df as object 1: ret is the value of the object they
\* return and df is object 1 as the call has left it.
NoCall == [fn |-> "", args |-> <<>>]

\* No run of generate_all_reports: nothing loaded, attempted or written
NoBatch ==
    [ pc                |-> "idle",
      standardized_data |-> None,
      provinces         |-> <<>>,
      regions           |-> <<>>,
      i                 |-> 0,
      attempted         |-> <<>>,
      errors            |-> <<>>,
      generated_reports |-> <<>>,
      files             |-> {},
      saved             |-> <<>> ]
Idle   == call = NoCall

CallOnObject(fn, args, s) ==
    /\ call' = [fn |-> fn, args |-> args]
    /\ ret'  = Deref(s)
    /\ df'   = s.heap[1]
    /\ UNCHANGED batch

\* dutch_month_to_number(month_name) on a cell of the month column
DutchMonthToNumber ==
    /\ Idle
    /\ \E i \in 1..Len(df.rows) :
          /\ call' = [fn |-> "dutch_month_to_number", args |-> <<df.rows[i]["maand"]>>]
          /\ ret'  = dutch_month_to_number(df.rows[i]["maand"])
    /\ UNCHANGED <<df, batch>>

\* get_quarter_from_month(month_name) on a cell of the month column
GetQuarterFromMonth ==
    /\ Idle
    /\ \E i \in 1..Len(df.rows) :
          /\ call' = [fn |-> "get_quarter_from_month", args |-> <<df.rows[i]["maand"]>>]
          /\ ret'  = get_quarter_from_month(df.rows[i]["maand"])
    /\ UNCHANGED <<df, batch>>

\* create_period_column(df, period_type=...)
PeriodTypes == {"month", "quarter", "year", "week"}
CreatePeriodColumn ==
    /\ Idle
    /\ \E period_type \in PeriodTypes :
          /\ call' = [fn |-> "create_period_column", args |-> <<period_type>>]
          /\ ret'  = create_period_column(df, "jaar", "maand", period_type)
    /\ UNCHANGED <<df, batch>>

\* standardize_date_columns(df)
StandardizeDateColumns ==
    /\ Idle
    /\ CallOnObject("standardize_date_columns", <<>>,
                    standardize_date_columns_obj(<<df>>, 1, "jaar", "maand"))

\* add_date_column(df, day=...)
Days == {1, 15}
AddDateColumn ==
    /\ Idle
    /\ \E day \in Days :
          CallOnObject("add_date_column", <<day>>,
                       add_date_column_obj(<<df>>, 1, "jaar", "maand", "datum", day))

\* extract_year_month_from_date(df, date_col, dutch_months=...)
DateCols == {"datum", "periode"}
ExtractYearMonthFromDate ==
    /\ Idle
    /\ \E date_col \in DateCols, dutch_months \in BOOLEAN :
          CallOnObject("extract_year_month_from_date", <<date_col, dutch_months>>,
                       extract_year_month_from_date_obj(<<df>>, 1, date_col, "jaar", "maand",
                                                        dutch_months))

(***************************************************************************)
(* SpecLabels: the Period Normalizer on every spelling of a month label.   *)
(* The input is a one-row table whose month cell is a vocabulary entry in  *)
(* any letter case with up to MaxPad spaces on either side, a string that  *)
(* is no month, or a value that is no string.                              *)
(***************************************************************************)
MaxPad == 1

Vocabulary == DOMAIN DUTCH_MONTHS

CaseVariants(k) ==
    {[i \in 1..Len(k) |-> IF i \in U THEN UpperChar(k[i]) ELSE k[i]] :
        U \in SUBSET (1..Len(k))}
Spaces(n) == [i \in 1..n |-> " "]
Spellings ==
    UNION {{Spaces(l) \o v \o Spaces(r) : l \in 0..MaxPad, r \in 0..MaxPad, v \in CaseVariants(k)} :
            k \in Vocabulary}
OtherStrings ==
    { <<"S","m","a","r","c","h">>, <<>>, <<" ">>, <<"j","a","n","u">>,
      <<"j","a"," ","n">>, <<"m","a","r","t">>, <<"3">>, <<"Q","1">>,
      <<"\t","M","e","i","\n">>, <<"\n"," ","O","K","T","\t","\t">> }
LabelCells ==
    {PyStr(x) : x \in Spellings \cup OtherStrings}
        \cup {PyNone, PyNaN, PyInt(3), [kind |-> "float", s |-> <<"3",".","0">>]}

LabelTable(jaar, cell) ==
    DataFrame(<<"jaar", "maand">>, <<0>>, <<[jaar |-> jaar, maand |-> cell]>>)
OtherYears == {1999, 2030}

InitLabels ==
    /\ df \in {LabelTable(2023, cell) : cell \in LabelCells}
              \cup {LabelTable(y, PyStr(k)) : y \in OtherYears, k \in Vocabulary}
    /\ call = NoCall
    /\ ret = Return(<<>>)
    /\ batch = NoBatch

NextLabels ==
    \/ DutchMonthToNumber
    \/ GetQuarterFromMonth
    \/ CreatePeriodColumn
    \/ StandardizeDateColumns

SpecLabels == InitLabels /\ [][NextLabels]_vars

(***************************************************************************)
(* Properties of the Period Normalizer (SpecLabels)                        *)
(***************************************************************************)
\* s is the vocabulary entry k with some letters in upper case and with
\* whitespace before and after it
VariantOf(s, k) ==
    \E a \in 0..(Len(s) - Len(k)) :
        /\ \A i \in 1..a : s[i] \in Whitespace
        /\ \A i \in 1..Len(k) : s[a + i] \in {k[i], UpperChar(k[i])}
        /\ \A i \in (a + Len(k) + 1)..Len(s) : s[i] \in Whitespace

CalledWithStr(fn) ==
    /\ call.fn = fn
    /\ isinstance_str(call.args[1])

\* C1: dutch_month_to_number is case-insensitive and whitespace-trimmed: every
\* case / padding variant of a vocabulary label returns the month number of
\* that label, which lies in 1..12; "januari", "Jan" and " JANUARI " give 1.
C1_MonthNumberOfEveryVariant ==
    CalledWithStr("dutch_month_to_number") =>
        /\ \A k \in Vocabulary :
              VariantOf(call.args[1].s, k) =>
                 /\ ret = Return(DUTCH_MONTHS[k])
                 /\ ret.val \in 1..12
        /\ call.args[1].s \in { <<"j","a","n","u","a","r","i">>, <<"J","a","n">>,
                                <<" ","J","A","N","U","A","R","I"," ">> }
              => ret = Return(1)

C1_Witness ==
    /\ call = [fn |-> "dutch_month_to_number",
               args |-> <<PyStr(<<" ","J","A","N","U","A","R","I"," ">>)>>]
    /\ ret = Return(1)

\* C2: dutch_month_to_number returns no value for bad input: a missing or
\* non-string input raises the "Invalid month name" error, a string whose
\* trimmed, lower-cased form is not in the vocabulary raises the "Unknown Dutch
\* month name" error, and the two errors differ.
InvalidInput      == Raise("ValueError", "Invalid month name: ", call.args[1])
UnrecognizedMonth == Raise("ValueError", "Unknown Dutch month name: ", call.args[1])

C2_BadInputRaises ==
    call.fn = "dutch_month_to_number" =>
        LET x == call.args[1]
        IN  /\ (pd_isna(x) \/ ~isinstance_str(x)) => ret = InvalidInput
            /\ (isinstance_str(x) /\ str_lower(str_strip(x.s)) \notin Vocabulary)
                  => ret = UnrecognizedMonth
            /\ Raised(ret) => ret.val = <<>> /\ ret \in {InvalidInput, UnrecognizedMonth}
            /\ InvalidInput # UnrecognizedMonth

C2_Witness ==
    /\ call.fn = "dutch_month_to_number"
    /\ \/ call.args[1] = PyStr(<<"S","m","a","r","c","h">>) /\ ret = UnrecognizedMonth
       \/ call.args[1] = PyNaN /\ ret = InvalidInput

\* C3: the quarter derived from a valid label is ((month number - 1) div 3) + 1,
\* lies in 1..4 and depends on the month number only (months 1-3 give 1, 4-6
\* give 2, 7-9 give 3, 10-12 give 4), in get_quarter_from_month and in
\* create_period_column(period_type='quarter') alike.
QuarterOfMonthNumber == <<1, 1, 1, 2, 2, 2, 3, 3, 3, 4, 4, 4>>

C3_QuarterOfEveryLabel ==
    /\ CalledWithStr("get_quarter_from_month") =>
          \A k \in Vocabulary :
             VariantOf(call.args[1].s, k) =>
                LET m == DUTCH_MONTHS[k]
                    q == ((m - 1) \div 3) + 1
                IN  /\ q \in 1..4
                    /\ q = QuarterOfMonthNumber[m]
                    /\ ret = Return(<<"Q", DigitChars[q + 1]>>)
    /\ (call.fn = "create_period_column" /\ call.args[1] = "quarter"
          /\ isinstance_str(df.rows[1]["maand"])) =>
          \A k \in Vocabulary :
             VariantOf(df.rows[1]["maand"].s, k) =>
                LET m == DUTCH_MONTHS[k]
                    q == ((m - 1) \div 3) + 1
                IN  ret = Return(<<int_str(df.rows[1]["jaar"])
                                   \o <<"-", "Q", DigitChars[q + 1]>> >>)

C3_Witness ==
    /\ call = [fn |-> "get_quarter_from_month",
               args |-> <<PyStr(<<"D","e","c"," ">>)>>]
    /\ ret = Return(<<"Q", "4">>)

\* C5: for every year and valid label the synthesizer writes periode = year,
\* "-", the month number as two digits (months 1..9 with a leading zero) and
\* kwartaal = year, "-Q", the quarter digit; (2023, "Maart") gives "2023-03"
\* and "2023-Q1".
YearDigits(y) ==
    << DigitChars[(y \div 1000) + 1], DigitChars[((y \div 100) % 10) + 1],
       DigitChars[((y \div 10) % 10) + 1], DigitChars[(y % 10) + 1] >>
TwoDigits(m) == <<DigitChars[(m \div 10) + 1], DigitChars[(m % 10) + 1]>>

C5_PeriodKeyFormat ==
    (call.fn = "standardize_date_columns" /\ isinstance_str(df.rows[1]["maand"])) =>
        /\ \A k \in Vocabulary :
              VariantOf(df.rows[1]["maand"].s, k) =>
                 LET m == DUTCH_MONTHS[k]
                     y == df.rows[1]["jaar"]
                 IN  /\ ~Raised(ret)
                     /\ Len(ret.val.rows) = 1
                     /\ ret.val.rows[1]["periode"] = YearDigits(y) \o <<"-">> \o TwoDigits(m)
                     /\ m <= 9 => ret.val.rows[1]["periode"][6] = "0"
                     /\ ret.val.rows[1]["kwartaal"]
                           = YearDigits(y) \o <<"-", "Q", DigitChars[QuarterOfMonthNumber[m] + 1]>>
        /\ (df.rows[1]["jaar"] = 2023 /\ df.rows[1]["maand"].s = <<"M","a","a","r","t">>) =>
              /\ ret.val.rows[1]["periode"]  = <<"2","0","2","3","-","0","3">>
              /\ ret.val.rows[1]["kwartaal"] = <<"2","0","2","3","-","Q","1">>

C5_Witness ==
    /\ call.fn = "standardize_date_columns"
    /\ df.rows[1]["jaar"] = 2023
    /\ df.rows[1]["maand"] = PyStr(<<"M","a","a","r","t">>)
    /\ ~Raised(ret)
    /\ ret.val.rows[1]["periode"] = <<"2","0","2","3","-","0","3">>

(***************************************************************************)
(* Calls on a table                                                        *)
(***************************************************************************)
\* filter_by_period(df, start_year=..., end_year=..., months=...)
StartYears  == {None, Some(2024)}
EndYears    == {None, Some(2023)}
MonthLists  == {None, Some(<< <<"A","p","r","i","l">>, <<"M","e","i">> >>), Some(<<>>)}
FilterByPeriod ==
    /\ Idle
    /\ \E start_year \in StartYears, end_year \in EndYears, months \in MonthLists :
          CallOnObject("filter_by_period", <<start_year, end_year, months>>,
                       filter_by_period_obj(<<df>>, 1, "jaar", "maand",
                                            start_year, end_year, months))

\* load_and_prepare_data() with df the content of the CSV file
LoadAndPrepareData ==
    /\ Idle
    /\ call' = [fn |-> "load_and_prepare_data", args |-> <<>>]
    /\ ret'  = load_and_prepare_data(df)
    /\ UNCHANGED <<df, batch>>

VLAAMS_GEWEST == <<"V","L","A","A","M","S"," ","G","E","W","E","S","T">>
PROVINCIE_ANTWERPEN ==
    <<"P","R","O","V","I","N","C","I","E"," ","A","N","T","W","E","R","P","E","N">>
Regions == {VLAAMS_GEWEST, PROVINCIE_ANTWERPEN}

\* The region_data create_region_report hands to the chart and table
\* methods: the loaded rows of region_name, when there are any
RegionData(region_name) ==
    region_data_of(load_and_prepare_data(df).val, region_name)
HasRegionData(region_name) ==
    /\ ~Raised(load_and_prepare_data(df))
    /\ Len(RegionData(region_name).rows) > 0

\* create_quarterly_chart(region_data, region_name)
CreateQuarterlyChart ==
    /\ Idle
    /\ \E region_name \in Regions :
          /\ HasRegionData(region_name)
          /\ call' = [fn |-> "create_quarterly_chart", args |-> <<region_name>>]
          /\ ret'  = create_quarterly_chart(RegionData(region_name))
    /\ UNCHANGED <<df, batch>>

\* create_yearly_quarterly_table(region_data)
CreateYearlyQuarterlyTable ==
    /\ Idle
    /\ \E region_name \in Regions :
          /\ HasRegionData(region_name)
          /\ call' = [fn |-> "create_yearly_quarterly_table", args |-> <<region_name>>]
          /\ ret'  = create_yearly_quarterly_table(RegionData(region_name))
    /\ UNCHANGED <<df, batch>>

\* create_rolling_average_chart(region_data, region_name)
CreateRollingAverageChart ==
    /\ Idle
    /\ \E region_name \in Regions :
          /\ HasRegionData(region_name)
          /\ call' = [fn |-> "create_rolling_average_chart", args |-> <<region_name>>]
          /\ ret'  = create_rolling_average_chart(RegionData(region_name))
    /\ UNCHANGED <<df, batch>>

(***************************************************************************)
(* Spec: the table operations on every table of at most MaxRows rows drawn *)
(* from SourceRows, and on the sample_data of date_utils.py.               *)
(***************************************************************************)
MaxRows == 3

SourceRow(regio, jaar, maand, woningen, eengezins) ==
    (  "regio" :> regio @@ "jaar" :> jaar @@ "maand" :> PyStr(maand)
    @@ "aantal woningen" :> woningen
    @@ "aantal gebouwen met een woning" :> eengezins )

\* The five rows of sample_data (date_utils.py, __main__), 'waarde' as the
\* number of dwellings
SampleRows ==
    << SourceRow(VLAAMS_GEWEST, 2023, <<"J","a","n","u","a","r","i">>, 100, 40),
       SourceRow(VLAAMS_GEWEST, 2023, <<"F","e","b","r","u","a","r","i">>, 110, 50),
       SourceRow(VLAAMS_GEWEST, 2023, <<"M","a","a","r","t">>, 120, 60),
       SourceRow(VLAAMS_GEWEST, 2024, <<"A","p","r","i","l">>, 130, 70),
       SourceRow(VLAAMS_GEWEST, 2024, <<"M","e","i">>, 140, 80) >>

\* Rows that bring the other cases: a year before 2015, a lower-case label, a
\* padded upper-case abbreviation, a second region with zero counts in 2015,
\* a label that is no month
OtherRows ==
    { SourceRow(VLAAMS_GEWEST, 2014, <<"D","e","c","e","m","b","e","r">>, 7, 3),
      SourceRow(VLAAMS_GEWEST, 2024, <<"a","p","r","i","l">>, 5, 9),
      SourceRow(VLAAMS_GEWEST, 2023, <<" ","O","K","T">>, 3, 1),
      SourceRow(PROVINCIE_ANTWERPEN, 2015, <<"J","u","l","i">>, 0, 0),
      SourceRow(VLAAMS_GEWEST, 2023, <<"S","m","a","r","c","h">>, 9, 2) }

SourceRows == {SampleRows[1], SampleRows[2], SampleRows[4]} \cup OtherRows

SourceColumns ==
    <<"regio", "jaar", "maand", "aantal woningen", "aantal gebouwen met een woning">>

\* pd.DataFrame / pd.read_csv: the rows under a RangeIndex
TableOf(rows) ==
    DataFrame(SourceColumns, [i \in 1..Len(rows) |-> i - 1], rows)

sample_data == TableOf(SampleRows)

Tables ==
    {TableOf(rows) : rows \in UNION {[1..k -> SourceRows] : k \in 0..MaxRows}}
        \cup {sample_data}

Init ==
    /\ df \in Tables
    /\ call = NoCall
    /\ ret = Return(<<>>)
    /\ batch = NoBatch

Next ==
    \/ StandardizeDateColumns
    \/ FilterByPeriod
    \/ LoadAndPrepareData
    \/ CreateQuarterlyChart
    \/ CreateYearlyQuarterlyTable
    \/ CreateRollingAverageChart

Spec == Init /\ [][Next]_vars

(***************************************************************************)
(* Properties of the table operations (Spec)                               *)
(***************************************************************************)
\* The source rows of df that belong to region_name and to a year from 2015 on
ReportRows(region_name) ==
    {i \in 1..Len(df.rows) :
        /\ df.rows[i]["regio"] = region_name
        /\ df.rows[i]["jaar"] >= 2015}

\* Month number and quarter number of source row i (its label is valid)
MonthOfRow(i)   == dutch_month_to_number(df.rows[i]["maand"]).val
QuarterOfRow(i) == QuarterOfMonthNumber[MonthOfRow(i)]

RECURSIVE SumOver(_, _)
SumOver(I, col) ==
    IF I = {} THEN 0
    ELSE LET i == CHOOSE x \in I : TRUE
         IN  df.rows[i][col] + SumOver(I \ {i}, col)

\* C4: in every row standardize_date_columns returns, the month in 'periode'
\* is the month of 'datum', the year in 'periode', in 'kwartaal' and in 'datum'
\* is the row's year, and the quarter in 'kwartaal' is ((month - 1) div 3) + 1
\* of that month.
C4_PeriodRepresentationsAgree ==
    (call.fn = "standardize_date_columns" /\ ~Raised(ret)) =>
        /\ Len(ret.val.rows) = Len(df.rows)
        /\ \A i \in 1..Len(ret.val.rows) :
              LET r        == ret.val.rows[i]
                  periode  == str_split(r["periode"], "-")
                  kwartaal == str_split(r["kwartaal"], "-")
              IN  /\ Len(periode) = 2 /\ Len(kwartaal) = 2
                  /\ str_int(periode[2]) = r["datum"].month
                  /\ r["datum"].month \in 1..12
                  /\ str_int(periode[1]) = r["jaar"]
                  /\ str_int(kwartaal[1]) = r["jaar"]
                  /\ r["datum"].year = r["jaar"]
                  /\ r["jaar"] = df.rows[i]["jaar"]
                  /\ kwartaal[2][1] = "Q"
                  /\ str_int(Tail(kwartaal[2])) = ((r["datum"].month - 1) \div 3) + 1

C4_Witness ==
    /\ call.fn = "standardize_date_columns"
    /\ ~Raised(ret)
    /\ Len(ret.val.rows) = 3
    /\ ret.val.rows[1]["datum"] = Timestamp(2023, 10, 1)
    /\ ret.val.rows[1]["kwartaal"] = <<"2","0","2","3","-","Q","4">>
    /\ ret.val.rows[2]["datum"] = Timestamp(2014, 12, 1)
    /\ ret.val.rows[3]["periode"] = <<"2","0","2","4","-","0","4">>

\* C7: in every row of the year x quarter table the Totaal cell is the sum of
\* the row's four quarter cells.
C7_TotalIsSumOfQuarters ==
    (call.fn = "create_yearly_quarterly_table" /\ ~Raised(ret)) =>
        \A p \in 1..Len(ret.val) :
            ret.val[p][6] = ret.val[p][2] + ret.val[p][3] + ret.val[p][4] + ret.val[p][5]

C7_Witness ==
    /\ call.fn = "create_yearly_quarterly_table"
    /\ ~Raised(ret)
    /\ \E p \in 1..Len(ret.val) :
          /\ ret.val[p][2] > 0 /\ ret.val[p][5] > 0
          /\ ret.val[p][6] = ret.val[p][2] + ret.val[p][5]

\* C8: the table has exactly one row for each distinct year of the grouped
\* input, in ascending year order; every row has five values, a (year,
\* quarter) without observations being 0; a year absent from the input has
\* no row.
C8_OneFullRowPerYear ==
    (call.fn = "create_yearly_quarterly_table" /\ ~Raised(ret)) =>
        LET I     == ReportRows(call.args[1])
            years == {df.rows[i]["jaar"] : i \in I}
        IN  /\ Len(ret.val) = Cardinality(years)
            /\ \A y \in years : \E p \in 1..Len(ret.val) : ret.val[p][1] = y
            /\ \A p \in 1..Len(ret.val) : ret.val[p][1] \in years
            /\ \A p \in 1..(Len(ret.val) - 1) : ret.val[p][1] < ret.val[p + 1][1]
            /\ \A p \in 1..Len(ret.val) :
                  /\ Len(ret.val[p]) = 6
                  /\ \A q \in 1..4 :
                        (~\E i \in I : /\ df.rows[i]["jaar"] = ret.val[p][1]
                                       /\ QuarterOfRow(i) = q)
                           => ret.val[p][q + 1] = 0

C8_Witness ==
    /\ call.fn = "create_yearly_quarterly_table"
    /\ ~Raised(ret)
    /\ \E i \in 1..Len(df.rows) : df.rows[i]["jaar"] = 2014
    /\ ret.val = << <<2015, 0, 0, 0, 0, 0>> >>

\* C9: the grouped sums have exactly one row per distinct key occurring in the
\* input and each metric cell is the sum of the metric over the input rows
\* with that key: per quarter-period key in create_quarterly_chart, per (year,
\* quarter) in create_yearly_quarterly_table; the three 2023 rows of
\* sample_data (100, 110, 120) all fall in "2023-Q1" and sum to 330.
KwartaalOfRow(i) ==
    YearDigits(df.rows[i]["jaar"]) \o <<"-", "Q", DigitChars[QuarterOfRow(i) + 1]>>

C9_GroupSum ==
    /\ (call.fn = "create_quarterly_chart" /\ ~Raised(ret)) =>
          LET I == ReportRows(call.args[1])
              g == ret.val.rows
          IN  /\ \A i \in I : \E p \in 1..Len(g) : g[p]["kwartaal"] = KwartaalOfRow(i)
              /\ \A p, r \in 1..Len(g) : g[p]["kwartaal"] = g[r]["kwartaal"] => p = r
              /\ \A p \in 1..Len(g) :
                    LET members == {i \in I : KwartaalOfRow(i) = g[p]["kwartaal"]}
                    IN  /\ members # {}
                        /\ g[p]["alle_woningen"] = SumOver(members, "aantal woningen")
                        /\ g[p]["aantal_huizen"]
                              = SumOver(members, "aantal gebouwen met een woning")
                        /\ g[p]["aantal_flats"]
                              = SumOver(members, "aantal woningen")
                                - SumOver(members, "aantal gebouwen met een woning")
              /\ (df = sample_data /\ call.args[1] = VLAAMS_GEWEST) =>
                    /\ g[1]["kwartaal"] = <<"2","0","2","3","-","Q","1">>
                    /\ g[1]["alle_woningen"] = 330
    /\ (call.fn = "create_yearly_quarterly_table" /\ ~Raised(ret)) =>
          LET I == ReportRows(call.args[1])
          IN  \A p \in 1..Len(ret.val) : \A q \in 1..4 :
                 ret.val[p][q + 1]
                    = SumOver({i \in I : /\ df.rows[i]["jaar"] = ret.val[p][1]
                                         /\ QuarterOfRow(i) = q}, "aantal woningen")

C9_Witness ==
    /\ df = sample_data
    /\ call = [fn |-> "create_quarterly_chart", args |-> <<VLAAMS_GEWEST>>]
    /\ ~Raised(ret)
    /\ Len(ret.val.rows) = 2
    /\ ret.val.rows[1]["alle_woningen"] = 330

\* C10: filter_by_period returns exactly the input rows, in their order, that
\* satisfy every supplied filter: year >= start_year, year <= end_year (both
\* inclusive), label a member of months by exact, case-sensitive comparison;
\* an omitted filter restricts nothing and an empty result is returned
\* normally.
C10_FilterByPeriod ==
    call.fn = "filter_by_period" =>
        LET start_year == call.args[1]
            end_year   == call.args[2]
            months     == call.args[3]
            keep == {i \in 1..Len(df.rows) :
                       /\ start_year # None => df.rows[i]["jaar"] >= TheVal(start_year)
                       /\ end_year # None => df.rows[i]["jaar"] <= TheVal(end_year)
                       /\ months # None =>
                             \E j \in 1..Len(TheVal(months)) :
                                 TheVal(months)[j] = df.rows[i]["maand"].s}
            out == ret.val
        IN  /\ ~Raised(ret)
            /\ Len(out.rows) = Cardinality(keep)
            /\ Len(out.index) = Len(out.rows)
            /\ \A p \in 1..Len(out.rows) :
                  /\ out.index[p] + 1 \in keep
                  /\ out.rows[p] = df.rows[out.index[p] + 1]
            /\ \A p \in 1..(Len(out.rows) - 1) : out.index[p] < out.index[p + 1]
            /\ (df = sample_data /\ start_year = Some(2024) /\ end_year = None
                  /\ months # None /\ months # Some(<<>>)) => out.index = <<3, 4>>

C10_Witness ==
    /\ call.fn = "filter_by_period"
    /\ call.args[1] = None /\ call.args[2] = None
    /\ call.args[3] # None /\ call.args[3] # Some(<<>>)
    /\ Len(df.rows) = 3
    /\ df.rows[1]["maand"] = PyStr(<<"a","p","r","i","l">>)
    /\ df.rows[2]["maand"] = PyStr(<<"A","p","r","i","l">>)
    /\ ret.val.index = <<1>>

(***************************************************************************)
(* SpecSeries: the rolling averages on monthly series long enough for the  *)
(* 12-point window to slide.  The input holds one row per month for the    *)
(* first n months from January 2015 on, n <= MaxMonths, with at most       *)
(* MaxGaps of them absent, in ascending or descending order.               *)
(***************************************************************************)
MaxMonths == 14
MaxGaps   == 1

FullName(m) == CHOOSE k \in DOMAIN month_mapping : month_mapping[k] = m

\* The number of dwellings of month t (t = 0 is January 2015)
Squares(t)    == (t + 1) * (t + 1)
SpikeFirst(t) == IF t = 0 THEN 25 ELSE 1

SeriesRow(t, woningen) ==
    SourceRow(VLAAMS_GEWEST, 2015 + (t \div 12), FullName((t % 12) + 1), woningen, 2)

\* The months of T in ascending order
MonthsAscending(T) ==
    [p \in 1..Cardinality(T) |->
        CHOOSE t \in T : Cardinality({u \in T : u < t}) = p - 1]
Reversed(s) == [p \in 1..Len(s) |-> s[Len(s) + 1 - p]]

SeriesTables ==
    UNION { UNION { { TableOf([p \in 1..Len(order) |-> SeriesRow(order[p], Squares(order[p]))]),
                      TableOf([p \in 1..Len(order) |-> SeriesRow(order[p], SpikeFirst(order[p]))]) } :
                    order \in {MonthsAscending(T), Reversed(MonthsAscending(T))} } :
            T \in {(0..(n - 1)) \ gaps :
                      n \in 1..MaxMonths,
                      gaps \in {g \in SUBSET (0..(MaxMonths - 1)) : Cardinality(g) <= MaxGaps}} \ {{}} }

InitSeries ==
    /\ df \in SeriesTables
    /\ call = NoCall
    /\ ret = Return(<<>>)
    /\ batch = NoBatch

NextSeries ==
    \/ LoadAndPrepareData
    \/ CreateRollingAverageChart

SpecSeries == InitSeries /\ [][NextSeries]_vars

(***************************************************************************)
(* Properties of the Rolling Metrics Engine (SpecSeries)                   *)
(***************************************************************************)
\* mean = total / count, as fractions
MeanIs(mean, total, count) ==
    /\ mean.den > 0
    /\ count > 0
    /\ mean.num * count = total * mean.den

\* C6: the rolling average at position i of the date-sorted monthly series is
\* the mean of the metric over positions max(first, i - 11)..i: never null,
\* from the current and earlier points only, one value per point of the
\* series; a series of one point yields its own value, position 12 the mean of
\* the first 12 values; the window counts positions whatever months are
\* missing.
C6_RollingAverage ==
    (call.fn = "create_rolling_average_chart" /\ ~Raised(ret)) =>
        LET m == ret.val.rows
            n == Len(m)
            col(c) == [i \in 1..n |-> m[i][c]]
            window(c, i) == SubSeq(col(c), IF i - 11 > 1 THEN i - 11 ELSE 1, i)
            ok(rolling, c, i) ==
                MeanIs(m[i][rolling], SumSeq(window(c, i)), Len(window(c, i)))
        IN  /\ n = Cardinality({<<df.rows[i]["jaar"], df.rows[i]["maand"]>> :
                                   i \in ReportRows(call.args[1])})
            /\ \A i \in 1..(n - 1) : Timestamp_lt(m[i]["datum"], m[i + 1]["datum"])
            /\ \A i \in 1..n :
                  /\ ok("rolling_alle_woningen", "alle_woningen", i)
                  /\ ok("rolling_aantal_huizen", "aantal_huizen", i)
                  /\ ok("rolling_aantal_flats", "aantal_flats", i)
            /\ n = 1 => m[1]["rolling_alle_woningen"] = Mean(m[1]["alle_woningen"], 1)
            /\ n >= 12 => MeanIs(m[12]["rolling_alle_woningen"],
                                 SumSeq(SubSeq(col("alle_woningen"), 1, 12)), 12)

\* a series of 13 points with a month missing: the window of the last point
\* is positions 2..13, from February 2015 to February 2016
C6_Witness ==
    /\ call.fn = "create_rolling_average_chart"
    /\ ~Raised(ret)
    /\ Len(ret.val.rows) = 13
    /\ ret.val.rows[1]["alle_woningen"] = 25
    /\ ret.val.rows[2]["datum"]  = Timestamp(2015, 2, 1)
    /\ ret.val.rows[13]["datum"] = Timestamp(2016, 2, 1)
    /\ ret.val.rows[12]["rolling_alle_woningen"] = Mean(36, 12)
    /\ ret.val.rows[13]["rolling_alle_woningen"] = Mean(12, 12)

(***************************************************************************)
(* Properties of the display period (SpecLabels)                           *)
(***************************************************************************)
\* C11: for every accepted form of the month label (abbreviation, any letter
\* case, surrounding whitespace) the periode_display written by
\* standardize_date_columns is the full month name, a space and the year.
C11_DisplayIsFullNameAndYear ==
    (call.fn = "standardize_date_columns" /\ ~Raised(ret)) =>
        \A k \in Vocabulary :
            VariantOf(df.rows[1]["maand"].s, k) =>
                ret.val.rows[1]["periode_display"]
                    = PyStr(DUTCH_MONTH_NAMES[DUTCH_MONTHS[k]] \o <<" ">>
                            \o YearDigits(df.rows[1]["jaar"]))

(***************************************************************************)
(* SpecSynth: the Period Column Synthesizer and the other copying          *)
(* transforms on tables of at most MaxSynthRows rows whose labels are a    *)
(* full name, an abbreviation, two strings that are no month and a missing *)
(* value; on the same tables without the year column, the month column or  *)
(* both; and on tables that already carry the derived columns.             *)
(***************************************************************************)
MaxSynthRows == 2

SynthYears == {2023, 2024}
SynthCells ==
    { PyStr(<<"J","a","n","u","a","r","i">>), PyStr(<<"f","e","b">>),
      PyStr(<<"S","m","a","r","c","h">>), PyStr(<<"F","o","o">>), PyNaN }
SynthRows == {[jaar |-> y, maand |-> x, waarde |-> 100] : y \in SynthYears, x \in SynthCells}

RawTables ==
    {DataFrame(<<"jaar", "maand", "waarde">>, [i \in 1..Len(rows) |-> i - 1], rows) :
        rows \in UNION {[1..k -> SynthRows] : k \in 0..MaxSynthRows}}

\* The table d as it is when the columns cols are not in the file
WithoutColumns(d, cols) ==
    LET kept(c) == c \notin cols
    IN  DataFrame(SelectSeq(d.columns, kept), d.index,
                  [i \in 1..Len(d.rows) |-> [c \in DOMAIN d.rows[i] \ cols |-> d.rows[i][c]]])

\* The tables a caller has after a first standardize_date_columns
DatedTables ==
    {standardize_date_columns(d, "jaar", "maand").val :
        d \in {t \in RawTables : ~Raised(standardize_date_columns(t, "jaar", "maand"))}}

SynthTables ==
    {WithoutColumns(d, cols) : d \in RawTables,
                               cols \in {{}, {"jaar"}, {"maand"}, {"jaar", "maand"}}}
        \cup DatedTables

InitSynth ==
    /\ df \in SynthTables
    /\ call = NoCall
    /\ ret = Return(<<>>)
    /\ batch = NoBatch

NextSynth ==
    \/ StandardizeDateColumns
    \/ AddDateColumn
    \/ ExtractYearMonthFromDate
    \/ FilterByPeriod

SpecSynth == InitSynth /\ [][NextSynth]_vars

(***************************************************************************)
(* Properties of the Period Column Synthesizer (SpecSynth)                 *)
(***************************************************************************)
\* The Normalizer rejects the label x
Rejected(x) == ~isinstance_str(x) \/ str_strip(str_lower(x.s)) \notin Vocabulary
\* x is a string that is no month
Unrecognized(x) == isinstance_str(x) /\ str_strip(str_lower(x.s)) \notin Vocabulary

RejectedRows == {i \in 1..Len(df.rows) : Rejected(df.rows[i]["maand"])}

SynthesizeCalled ==
    /\ call.fn = "standardize_date_columns"
    /\ HasColumn(df, "jaar")
    /\ HasColumn(df, "maand")

\* C12 as claimed, on tables whose labels are all strings: when a row has an
\* unrecognized month label, standardize_date_columns fails with the "Unknown
\* Dutch month name" error and the error singles out the offending row: one
\* row of the table, an unrecognized one, is the only row that matches what
\* the error carries.
C12_ErrorIdentifiesOffendingRow ==
    (/\ SynthesizeCalled
     /\ \A i \in 1..Len(df.rows) : isinstance_str(df.rows[i]["maand"])
     /\ \E i \in 1..Len(df.rows) : Unrecognized(df.rows[i]["maand"])) =>
        /\ Raised(ret)
        /\ ret.msg = "Unknown Dutch month name: "
        /\ \E i \in 1..Len(df.rows) :
              /\ Unrecognized(df.rows[i]["maand"])
              /\ \A j \in 1..Len(df.rows) : df.rows[j]["maand"] = ret.arg => j = i

\* C12 amended: when a row has a label the Normalizer rejects,
\* standardize_date_columns returns no table and raises the Normalizer's error
\* for the first such row in row order; the error carries that row's label
\* (not its index or year) and is "Unknown Dutch month name" when the label is
\* a string, "Invalid month name" when it is missing.  When no row is
\* rejected the result has every row of the input, under the same index.
C12_FirstRejectedLabelFailsAll ==
    SynthesizeCalled =>
        /\ RejectedRows # {} =>
              LET first == CHOOSE i \in RejectedRows : \A j \in RejectedRows : i <= j
                  label == df.rows[first]["maand"]
              IN  /\ Raised(ret)
                  /\ ret.val = <<>>
                  /\ ret.exc = "ValueError"
                  /\ ret.arg = label
                  /\ ret.msg = IF isinstance_str(label) THEN "Unknown Dutch month name: "
                                                        ELSE "Invalid month name: "
        /\ RejectedRows = {} =>
              /\ ~Raised(ret)
              /\ ret.val.index = df.index
              /\ \A i \in 1..Len(df.rows) :
                    \A c \in DOMAIN df.rows[i] \ {"datum", "periode", "kwartaal", "periode_display"} :
                        ret.val.rows[i][c] = df.rows[i][c]

\* a good row, then two rows with the same unrecognized label
C12_Witness ==
    /\ SynthesizeCalled
    /\ Len(df.rows) = 2
    /\ df.rows[1]["maand"] = PyStr(<<"f","e","b">>)
    /\ df.rows[2]["maand"] = PyStr(<<"S","m","a","r","c","h">>)
    /\ ret = Raise("ValueError", "Unknown Dutch month name: ", PyStr(<<"S","m","a","r","c","h">>))

\* C16: the copying transforms leave the caller's table as it was, whether
\* they return or raise: same columns, same index, same cells; the columns
\* they derive are in the returned table only.
C16_InputNeverMutated ==
    [][ /\ df' = df
        /\ (call'.fn \in {"standardize_date_columns", "add_date_column"} /\ ~Raised(ret'))
              => HasColumn(ret'.val, "datum")
        /\ (call'.fn = "standardize_date_columns" /\ ~Raised(ret'))
              => /\ HasColumn(ret'.val, "periode")
                 /\ HasColumn(ret'.val, "kwartaal")
                 /\ HasColumn(ret'.val, "periode_display")
      ]_vars

\* standardize_date_columns has returned a table with the derived columns and
\* the caller's table has none of them
C16_Witness ==
    /\ call.fn = "standardize_date_columns"
    /\ ~Raised(ret)
    /\ Len(df.rows) = 2
    /\ df.columns = <<"jaar", "maand", "waarde">>
    /\ ret.val.columns = <<"jaar", "maand", "waarde", "datum", "periode", "kwartaal",
                           "periode_display">>

\* C17: standardize_date_columns on a table without the year column or
\* without the month column raises the column-not-found error and returns no
\* table; the columns are checked before any label is converted, so a table
\* with a bad label and a missing column fails on the column.
C17_MissingColumnFails ==
    call.fn = "standardize_date_columns" =>
        /\ ~HasColumn(df, "jaar")
              => ret = Raise("ValueError", "Year column not found in DataFrame: ", "jaar")
        /\ (HasColumn(df, "jaar") /\ ~HasColumn(df, "maand"))
              => ret = Raise("ValueError", "Month column not found in DataFrame: ", "maand")
        /\ (~HasColumn(df, "jaar") \/ ~HasColumn(df, "maand"))
              => /\ Raised(ret)
                 /\ ret.val = <<>>
                 /\ ret.msg \notin {"Unknown Dutch month name: ", "Invalid month name: "}

\* no year column and a label that is no month: the column error comes first
C17_Witness ==
    /\ call.fn = "standardize_date_columns"
    /\ df.columns = <<"maand", "waarde">>
    /\ Len(df.rows) = 1
    /\ df.rows[1]["maand"] = PyStr(<<"S","m","a","r","c","h">>)
    /\ ret = Raise("ValueError", "Year column not found in DataFrame: ", "jaar")

(***************************************************************************)
(* Properties of the monthly series (Spec)                                 *)
(***************************************************************************)
\* The label of source row i is one month_mapping knows: a capitalised full
\* month name, letter for letter
MappedRow(i) == df.rows[i]["maand"].s \in Range(DUTCH_MONTH_NAMES)

\* The points of the series that stand for source row i's (year, label) group
PointsOfGroup(i) ==
    {p \in 1..Len(ret.val.rows) :
        /\ ret.val.rows[p]["jaar"] = df.rows[i]["jaar"]
        /\ ret.val.rows[p]["maand"] = df.rows[i]["maand"]}

\* The points of the series dated on the first of source row i's month
PointsOfMonth(i) ==
    {p \in 1..Len(ret.val.rows) :
        ret.val.rows[p]["datum"] = Timestamp(df.rows[i]["jaar"], MonthOfRow(i), 1)}

\* C13: create_rolling_average_chart does not raise on a label it cannot map:
\* the (year, label) groups whose label is not in month_mapping are absent
\* from the series, and every other group is one point with the sums of its
\* rows and with rolling averages over the points up to it.
C13_UnmappableGroupsExcluded ==
    call.fn = "create_rolling_average_chart" =>
        LET I == ReportRows(call.args[1])
        IN  /\ ~Raised(ret)
            /\ \A i \in I : ~MappedRow(i) => PointsOfGroup(i) = {}
            /\ \A i \in I : MappedRow(i) =>
                  LET group == {j \in I : /\ df.rows[j]["jaar"] = df.rows[i]["jaar"]
                                          /\ df.rows[j]["maand"] = df.rows[i]["maand"]}
                  IN  /\ Cardinality(PointsOfGroup(i)) = 1
                      /\ \A p \in PointsOfGroup(i) :
                            /\ ret.val.rows[p]["alle_woningen"]
                                  = SumOver(group, "aantal woningen")
                            /\ ret.val.rows[p]["aantal_huizen"]
                                  = SumOver(group, "aantal gebouwen met een woning")
                            /\ MeanIs(ret.val.rows[p]["rolling_alle_woningen"],
                                      SumSeq([r \in 1..p |-> ret.val.rows[r]["alle_woningen"]]),
                                      p)

\* 'april' is dropped, 'April' and 'Januari' are the two points of the series
C13_Witness ==
    /\ call = [fn |-> "create_rolling_average_chart", args |-> <<VLAAMS_GEWEST>>]
    /\ ~Raised(ret)
    /\ Len(df.rows) = 3
    /\ \E i \in 1..3 : df.rows[i]["maand"] = PyStr(<<"a","p","r","i","l">>)
    /\ Len(ret.val.rows) = 2
    /\ ret.val.rows[1]["datum"] = Timestamp(2023, 1, 1)
    /\ ret.val.rows[2]["datum"] = Timestamp(2024, 4, 1)
    /\ ret.val.rows[2]["rolling_alle_woningen"] = Mean(230, 2)

\* C14: every source row of the region (from 2015 on) whose label the
\* Normalizer accepts is counted in the series point dated on the first of
\* its calendar month, the date standardize_date_columns gives the row: the
\* point exists and its sum is the sum over all rows of that year and month.
C14_SeriesDateIsSynthesizerDate ==
    (call.fn = "create_rolling_average_chart" /\ ~Raised(ret)) =>
        LET I == ReportRows(call.args[1])
        IN  \A i \in I :
               /\ PointsOfMonth(i) # {}
               /\ \A p \in PointsOfMonth(i) :
                     ret.val.rows[p]["alle_woningen"]
                        = SumOver({j \in I : /\ df.rows[j]["jaar"] = df.rows[i]["jaar"]
                                             /\ MonthOfRow(j) = MonthOfRow(i)},
                                  "aantal woningen")

\* C15: the series has exactly one point for each (year, month) observed in
\* the region's rows from 2015 on, no point for any other month, and its
\* dates are strictly ascending.
C15_OnePointPerObservedMonth ==
    (call.fn = "create_rolling_average_chart" /\ ~Raised(ret)) =>
        LET I == ReportRows(call.args[1])
            m == ret.val.rows
        IN  /\ \A i \in I : Cardinality(PointsOfMonth(i)) = 1
            /\ \A p \in 1..Len(m) : \E i \in I : p \in PointsOfMonth(i)
            /\ \A p \in 1..(Len(m) - 1) : Timestamp_lt(m[p]["datum"], m[p + 1]["datum"])

\* C23: standardize_date_columns applied to the output of a first
\* standardize_date_columns (df has the four derived columns) does not fail
\* and returns a table with the same datum, periode, kwartaal and
\* periode_display as the first output, and with every other column, the
\* index and the order of the columns as they were.
C23_SynthesizerIdempotent ==
    (call.fn = "standardize_date_columns" /\ df \in DatedTables) =>
        /\ ~Raised(ret)
        /\ ret.val.columns = df.columns
        /\ ret.val.index = df.index
        /\ Len(ret.val.rows) = Len(df.rows)
        /\ \A i \in 1..Len(df.rows) :
              \A c \in Range(df.columns) : ret.val.rows[i][c] = df.rows[i][c]

\* The second application on the output for (2023, 'Januari'), (2024, 'feb')
C23_Witness ==
    /\ call.fn = "standardize_date_columns"
    /\ df \in DatedTables
    /\ Len(df.rows) = 2
    /\ df.rows[2]["maand"] = PyStr(<<"f","e","b">>)
    /\ df.rows[2]["periode"] = <<"2","0","2","4","-","0","2">>
    /\ ret.val.rows[2]["periode"] = <<"2","0","2","4","-","0","2">>
    /\ ret.val.rows[2]["periode_display"] = PyStr(<<"f","e","b"," ","2","0","2","4">>)
    /\ ret.val.rows[1]["datum"] = Timestamp(2023, 1, 1)

(***************************************************************************)
(* SpecQuarter: the quarter of a month number.  The arithmetic of          *)
(* get_quarter_from_month and create_period_column is applied to every     *)
(* integer from -MaxMonthNumber to MaxMonthNumber, and the two functions   *)
(* themselves to one-row tables over the vocabulary and a few other cells. *)
(***************************************************************************)
MaxMonthNumber == 14

MonthNumbers == (-MaxMonthNumber)..MaxMonthNumber

QuarterCells ==
    {PyStr(k) : k \in Vocabulary}
        \cup {PyStr(<<"S","m","a","r","c","h">>), PyStr(<<"1","3">>), PyStr(<<"0">>),
              PyInt(13), PyInt(0), PyNone, PyNaN}

InitQuarter ==
    /\ df \in {LabelTable(y, cell) : y \in {2023} \cup OtherYears, cell \in QuarterCells}
    /\ call = NoCall
    /\ ret = Return(<<>>)
    /\ batch = NoBatch

\* ((month_num - 1) // 3 + 1) on a month number, as an expression of its own
QuarterOfMonth ==
    /\ Idle
    /\ \E month_num \in MonthNumbers :
          /\ call' = [fn |-> "quarter_of", args |-> <<month_num>>]
          /\ ret'  = Return(quarter_of(month_num))
    /\ UNCHANGED <<df, batch>>

NextQuarter ==
    \/ QuarterOfMonth
    \/ GetQuarterFromMonth
    \/ CreatePeriodColumn

SpecQuarter == InitQuarter /\ [][NextQuarter]_vars

PairYears == {1000, 2023, 2024, 9999}

PairRow(jaar, n) == [jaar |-> jaar, maand |-> PyStr(DUTCH_MONTH_NAMES[n])]

PairTables ==
    {DataFrame(<<"jaar", "maand">>, <<0, 1>>, <<PairRow(y1, n1), PairRow(y2, n2)>>) :
        y1 \in PairYears, n1 \in 1..12, y2 \in PairYears, n2 \in 1..12}

InitPairs ==
    /\ df \in PairTables
    /\ call = NoCall
    /\ ret = Return(<<>>)
    /\ batch = NoBatch

NextPairs ==
    \/ CreatePeriodColumn
    \/ StandardizeDateColumns

SpecPairs == InitPairs /\ [][NextPairs]_vars

(***************************************************************************)
(* Properties of the month-period key (SpecPairs)                          *)
(***************************************************************************)
\* The calendar month of row i, read off the list of month names
PairMonth(i) == CHOOSE n \in 1..12 : DUTCH_MONTH_NAMES[n] = df.rows[i]["maand"].s

\* Row 1 is a month before row 2
PairBefore ==
    \/ df.rows[1]["jaar"] < df.rows[2]["jaar"]
    \/ df.rows[1]["jaar"] = df.rows[2]["jaar"] /\ PairMonth(1) < PairMonth(2)

\* Keys a and b are ordered as the rows are, and equal only if the rows are
KeysOrderedAsPairs(a, b) ==
    /\ str_lt(a, b) <=> PairBefore
    /\ (a = b) <=> (df.rows[1]["jaar"] = df.rows[2]["jaar"] /\ PairMonth(1) = PairMonth(2))

PROVINCIE == <<"P","R","O","V","I","N","C","I","E">>
PROVINCIE_LIMBURG ==
    <<"P","R","O","V","I","N","C","I","E"," ","L","I","M","B","U","R","G">>
WAALS_GEWEST == <<"W","A","A","L","S"," ","G","E","W","E","S","T">>
BRUSSELS_HOOFDSTEDELIJK_GEWEST ==
    <<"B","R","U","S","S","E","L","S"," ","H","O","O","F","D","S","T","E","D","E","L","I","J","K",
      " ","G","E","W","E","S","T">>

\* str.startswith
str_startswith(s, prefix) ==
    /\ Len(s) >= Len(prefix)
    /\ SubSeq(s, 1, Len(prefix)) = prefix

\* str.replace of one character by another
str_replace(s, old, new) == [i \in 1..Len(s) |-> IF s[i] = old THEN new ELSE s[i]]

\* sorted(...) of a set of strings
sorted_strings(S) ==
    [p \in 1..Cardinality(S) |->
        CHOOSE x \in S : Cardinality({z \in S : str_lt(z, x)}) = p - 1]

\* get_provinces: the distinct regio values starting with 'PROVINCIE', sorted
get_provinces(standardized_data) ==
    sorted_strings({standardized_data.rows[i]["regio"] :
                       i \in {j \in 1..Len(standardized_data.rows) :
                                 str_startswith(standardized_data.rows[j]["regio"], PROVINCIE)}})

\* get_regions: the three main regions, in this order
get_regions == <<VLAAMS_GEWEST, WAALS_GEWEST, BRUSSELS_HOOFDSTEDELIJK_GEWEST>>

\* output_dir / f"{region_name.replace(' ', '_').replace('/', '_')}_rapport.html"
output_file(region_name) ==
    str_replace(str_replace(region_name, " ", "_"), "/", "_")
        \o <<"_","r","a","p","p","o","r","t",".","h","t","m","l">>

index_file == <<"i","n","d","e","x",".","h","t","m","l">>

\* create_yearly_quarters_chart: for each quarter the rows of its trace, the
\* (year, quarter) sums of that quarter sorted by year
quarter_trace(yearly_quarterly, quarter) ==
    SortValues(BoolIndex(yearly_quarterly,
                         {i \in 1..Len(yearly_quarterly.rows) :
                             yearly_quarterly.rows[i]["quarter_num"] = PyStr(<<quarter>>)}),
               "jaar")
quarter_traces(yearly_quarterly) ==
    [q \in 1..Len(Quarters) |-> quarter_trace(yearly_quarterly, Quarters[q])]
create_yearly_quarters_chart(region_data) ==
    Return(quarter_traces(
        add_quarter_num(GroupBySum(from_2015(region_data), <<"jaar", "kwartaal">>,
                                   <<"alle_woningen">>))))

\* Series.min() and Series.max() of the years, missing on an empty table
year_min(d) ==
    IF Len(d.rows) = 0 THEN None
    ELSE Some(CHOOSE y \in {d.rows[i]["jaar"] : i \in 1..Len(d.rows)} :
                 \A i \in 1..Len(d.rows) : y <= d.rows[i]["jaar"])
year_max(d) ==
    IF Len(d.rows) = 0 THEN None
    ELSE Some(CHOOSE y \in {d.rows[i]["jaar"] : i \in 1..Len(d.rows)} :
                 \A i \in 1..Len(d.rows) : y >= d.rows[i]["jaar"])

\* Variant of summary_stats: total_permits over all years of the region
summary_stats_all_years(region_data) ==
    [ total_permits |-> SumSeq([i \in 1..Len(region_data.rows) |->
                                   region_data.rows[i]["alle_woningen"]]),
      total_houses  |-> SumSeq([i \in 1..Len(from_2015(region_data).rows) |->
                                   from_2015(region_data).rows[i]["aantal_huizen"]]),
      total_flats   |-> SumSeq([i \in 1..Len(from_2015(region_data).rows) |->
                                   from_2015(region_data).rows[i]["aantal_flats"]]),
      date_range    |-> <<year_min(from_2015(region_data)), year_max(from_2015(region_data))>> ]

\* The summary statistics of create_region_report, over the rows from 2015
summary_stats(region_data) ==
    [ total_permits |-> SumSeq([i \in 1..Len(from_2015(region_data).rows) |->
                                   from_2015(region_data).rows[i]["alle_woningen"]]),
      total_houses  |-> SumSeq([i \in 1..Len(from_2015(region_data).rows) |->
                                   from_2015(region_data).rows[i]["aantal_huizen"]]),
      total_flats   |-> SumSeq([i \in 1..Len(from_2015(region_data).rows) |->
                                   from_2015(region_data).rows[i]["aantal_flats"]]),
      date_range    |-> <<year_min(from_2015(region_data)), year_max(from_2015(region_data))>> ]

\* render_building_permits_report: what the report of the region shows
html_content(region_data, region_name) ==
    [ region_name                |-> region_name,
      stats                      |-> summary_stats(region_data),
      quarterly_table            |-> create_yearly_quarterly_table(region_data).val,
      chart_html                 |-> create_quarterly_chart(region_data).val,
      yearly_quarters_chart_html |-> create_yearly_quarters_chart(region_data).val,
      rolling_average_chart_html |-> create_rolling_average_chart(region_data).val ]

\* save_report(html_content, output_file): the file and what is in it
saved_file(file, content) == [file |-> file, html_content |-> content]

\* The paths of an optional saved file, and the file as a list of writes
PathOf(o) == {x.file : x \in o}
WritesOf(o) == IF o = None THEN <<>> ELSE <<TheVal(o)>>

\* create_region_report after the filter on the region: None without a
\* file when the region has no rows; the exception of a chart or table
\* method, or of rendering and saving (fails), before any file is written;
\* else the file is saved and returned
report_of_region_data(region_data, region_name, fails) ==
    IF Len(region_data.rows) = 0 THEN Return(None)
    ELSE IF Raised(create_quarterly_chart(region_data))
    THEN Raise("Exception", "create_quarterly_chart", region_name)
    ELSE IF Raised(create_rolling_average_chart(region_data))
    THEN Raise("Exception", "create_rolling_average_chart", region_name)
    ELSE IF Raised(create_yearly_quarterly_table(region_data))
    THEN Raise("Exception", "create_yearly_quarterly_table", region_name)
    ELSE IF fails THEN Raise("Exception", "save_report", region_name)
    ELSE Return(Some(saved_file(output_file(region_name),
                                html_content(region_data, region_name))))

\* The generator object: self.data and self.standardized_data
Generator(data, standardized_data) ==
    [data |-> data, standardized_data |-> standardized_data]

\* load_and_prepare_data on the generator: standardize_date_columns(self.data)
\* on the objects, then the derived metrics on its result
loaded_generator(s) ==
    IF Raised(s.ret)
    THEN [gen |-> Generator(s.heap[1], None), ret |-> s.ret]
    ELSE [gen |-> Generator(s.heap[1],
                            Some(derived_metrics(Return(s.heap[s.ret.val])).val)),
          ret |-> Return(None)]
load_and_prepare_data_obj(gen) ==
    loaded_generator(standardize_date_columns_obj(<<gen.data>>, 1, "jaar", "maand"))

\* if self.standardized_data is None: self.load_and_prepare_data()
ensure_loaded(gen) ==
    IF gen.standardized_data = None THEN load_and_prepare_data_obj(gen)
    ELSE [gen |-> gen, ret |-> Return(None)]

\* Variant of filter_region: the filtered table is kept as standardized_data
filter_region_in_place(gen, region_name) ==
    [gen |-> Generator(gen.data,
                       Some(region_data_of(TheVal(gen.standardized_data), region_name))),
     region_data |-> region_data_of(TheVal(gen.standardized_data), region_name)]

\* region_data = self.standardized_data[... == region_name].copy(): a new
\* table, the generator's tables as they were
filter_region(gen, region_name) ==
    [gen |-> gen,
     region_data |-> region_data_of(TheVal(gen.standardized_data), region_name)]

\* create_region_report on the generator: the generator after the call and
\* what the call returned or raised
create_region_report_on(f, region_name, fails) ==
    [gen |-> f.gen, ret |-> report_of_region_data(f.region_data, region_name, fails)]
create_region_report_loaded(l, region_name, fails) ==
    IF Raised(l.ret) THEN l
    ELSE create_region_report_on(filter_region(l.gen, region_name), region_name, fails)
create_region_report(gen, region_name, fails) ==
    create_region_report_loaded(ensure_loaded(gen), region_name, fails)

\* Variant of try_create_region_report: the exception leaves the loop
try_create_region_report_reraise(b, region_name, r) ==
    IF Raised(r)
    THEN [b EXCEPT !.pc = "raised",
                   !.attempted = Append(@, region_name)]
    ELSE [b EXCEPT !.i = @ + 1,
                   !.attempted = Append(@, region_name),
                   !.generated_reports = Append(@, PathOf(r.val)),
                   !.files = @ \cup PathOf(r.val),
                   !.saved = @ \o WritesOf(r.val)]

\* The body of both loops: try: report_file = create_region_report(...);
\* generated_reports.append(report_file); except Exception: print(...)
try_create_region_report(b, region_name, r) ==
    IF Raised(r)
    THEN [b EXCEPT !.i = @ + 1,
                   !.attempted = Append(@, region_name),
                   !.errors = Append(@, region_name)]
    ELSE [b EXCEPT !.i = @ + 1,
                   !.attempted = Append(@, region_name),
                   !.generated_reports = Append(@, PathOf(r.val)),
                   !.files = @ \cup PathOf(r.val),
                   !.saved = @ \o WritesOf(r.val)]

\* generate_all_reports up to the first loop: load the data, list the
\* provinces; an exception of the loader ends the run
start_batch(b, loaded) ==
    IF Raised(loaded) THEN [b EXCEPT !.pc = "raised"]
    ELSE [b EXCEPT !.pc = "provinces",
                   !.standardized_data = Some(loaded.val),
                   !.provinces = get_provinces(loaded.val),
                   !.i = 1]

\* render_index_page: a link to the report file of every province and of
\* every main region
index_links(names) == [k \in 1..Len(names) |-> output_file(names[k])]
render_index_page(provinces, regions) ==
    [provinces |-> index_links(provinces), regions |-> index_links(regions)]

\* Variant of create_index_file: no index when a report has failed
create_index_file_unless_errors(b) ==
    IF b.errors # <<>> THEN [b EXCEPT !.pc = "done"]
    ELSE [b EXCEPT !.pc = "done",
                   !.files = @ \cup {index_file},
                   !.saved = Append(@, saved_file(index_file,
                                render_index_page(get_provinces(TheVal(b.standardized_data)),
                                                  get_regions)))]

\* create_index_file(output_path, generated_reports): report_files is not
\* read; the page is rendered from get_provinces() and get_regions()
create_index_file(b) ==
    [b EXCEPT !.pc = "done",
              !.files = @ \cup {index_file},
              !.saved = Append(@, saved_file(index_file,
                           render_index_page(get_provinces(TheVal(b.standardized_data)),
                                             get_regions)))]

(***************************************************************************)
(* Steps of generate_all_reports                                           *)
(***************************************************************************)
\* generate_all_reports(): mkdir, load_and_prepare_data, get_provinces
GenerateAllReports ==
    /\ Idle
    /\ batch.pc = "idle"
    /\ call' = [fn |-> "generate_all_reports", args |-> <<>>]
    /\ batch' = start_batch(batch, load_and_prepare_data(df))
    /\ ret' = IF Raised(load_and_prepare_data(df)) THEN load_and_prepare_data(df) ELSE ret
    /\ UNCHANGED df

\* One turn of a loop: s is what create_region_report did to the generator
\* and what it returned or raised
ReportStep(region_name, s) ==
    /\ batch' = try_create_region_report(
                    [batch EXCEPT !.standardized_data = s.gen.standardized_data],
                    region_name, s.ret)
    /\ df' = s.gen.data
    /\ UNCHANGED <<call, ret>>

\* One turn of 'for province in provinces'
ProvinceReport ==
    /\ batch.pc = "provinces"
    /\ batch.i <= Len(batch.provinces)
    /\ \E fails \in BOOLEAN :
          ReportStep(batch.provinces[batch.i],
                     create_region_report(Generator(df, batch.standardized_data),
                                          batch.provinces[batch.i], fails))

\* The first loop is over: regions = self.get_regions()
GetRegions ==
    /\ batch.pc = "provinces"
    /\ batch.i > Len(batch.provinces)
    /\ batch' = [batch EXCEPT !.pc = "regions", !.regions = get_regions, !.i = 1]
    /\ UNCHANGED <<df, call, ret>>

\* One turn of 'for region in regions'
RegionReport ==
    /\ batch.pc = "regions"
    /\ batch.i <= Len(batch.regions)
    /\ \E fails \in BOOLEAN :
          ReportStep(batch.regions[batch.i],
                     create_region_report(Generator(df, batch.standardized_data),
                                          batch.regions[batch.i], fails))

\* The second loop is over: create_index_file, return generated_reports;
\* an exception of the index file is the run's exception
CreateIndexFile ==
    /\ batch.pc = "regions"
    /\ batch.i > Len(batch.regions)
    /\ \E fails \in BOOLEAN :
          IF fails
          THEN /\ batch' = [batch EXCEPT !.pc = "raised"]
               /\ ret' = Raise("Exception", "create_index_file", <<>>)
          ELSE /\ batch' = create_index_file(batch)
               /\ ret' = Return(batch.generated_reports)
    /\ UNCHANGED <<df, call>>

(***************************************************************************)
(* SpecBatch: generate_all_reports on every table of at most MaxBatchRows  *)
(* rows drawn from BatchRows: two provinces, the three main regions, and a *)
(* row whose label is no month.  Whether rendering or saving a report      *)
(* raises is the environment's choice at every turn of the loops.          *)
(***************************************************************************)
MaxBatchRows == 3

BatchRows ==
    { SourceRow(PROVINCIE_LIMBURG, 2023, <<"J","a","n","u","a","r","i">>, 20, 5),
      SourceRow(PROVINCIE_ANTWERPEN, 2023, <<"J","a","n","u","a","r","i">>, 10, 4),
      SourceRow(VLAAMS_GEWEST, 2023, <<"J","a","n","u","a","r","i">>, 100, 40),
      SourceRow(WAALS_GEWEST, 2023, <<"J","a","n","u","a","r","i">>, 60, 30),
      SourceRow(BRUSSELS_HOOFDSTEDELIJK_GEWEST, 2023, <<"J","a","n","u","a","r","i">>, 8, 1),
      SourceRow(VLAAMS_GEWEST, 2023, <<"S","m","a","r","c","h">>, 9, 2) }

BatchTables ==
    {TableOf(rows) : rows \in UNION {[1..k -> BatchRows] : k \in 0..MaxBatchRows}}

InitBatch ==
    /\ df \in BatchTables
    /\ call = NoCall
    /\ ret = Return(<<>>)
    /\ batch = NoBatch

NextBatch ==
    \/ GenerateAllReports
    \/ ProvinceReport
    \/ GetRegions
    \/ RegionReport
    \/ CreateIndexFile

SpecBatch == InitBatch /\ [][NextBatch]_vars

(***************************************************************************)
(* Properties of the batch run (SpecBatch)                                 *)
(***************************************************************************)
\* The provinces of the CSV content: the regio values starting 'PROVINCIE'
ProvinceNames ==
    {df.rows[i]["regio"] :
        i \in {j \in 1..Len(df.rows) :
                  /\ Len(df.rows[j]["regio"]) >= 9
                  /\ SubSeq(df.rows[j]["regio"], 1, 9) = PROVINCIE}}

MainRegions == <<VLAAMS_GEWEST, WAALS_GEWEST, BRUSSELS_HOOFDSTEDELIJK_GEWEST>>

\* Attempt k is the one the order prescribes: the k-th province in
\* ascending order, and after the provinces the main regions in their order
AttemptInOrder(k) ==
    IF k <= Cardinality(ProvinceNames)
    THEN /\ batch.attempted[k] \in ProvinceNames
         /\ Cardinality({z \in ProvinceNames : str_lt(z, batch.attempted[k])}) = k - 1
    ELSE /\ k - Cardinality(ProvinceNames) <= 3
         /\ batch.attempted[k] = MainRegions[k - Cardinality(ProvinceNames)]

\* Every province and every main region has been attempted, none left out
AllAttempted == Len(batch.attempted) = Cardinality(ProvinceNames) + 3

\* The region has rows in the CSV content
HasRows(region_name) == \E i \in 1..Len(df.rows) : df.rows[i]["regio"] = region_name

\* The report of attempt k is among the files written
ReportWritten(k) ==
    str_replace(batch.attempted[k], " ", "_")
        \o <<"_","r","a","p","p","o","r","t",".","h","t","m","l">> \in batch.files

\* An exception of attempt k was caught
AttemptFailed(k) == batch.attempted[k] \in Range(batch.errors)

\* The attempts so far are in order, each region once, and the run has
\* ended by an exception only before the first attempt (the loader's) or
\* after the last one (the index file's); a finished run has attempted all
AttemptsInOrderOnce ==
    /\ \A k \in 1..Len(batch.attempted) : AttemptInOrder(k)
    /\ \A j, k \in 1..Len(batch.attempted) : batch.attempted[j] = batch.attempted[k] => j = k
    /\ batch.pc = "done" => AllAttempted
    /\ batch.pc = "raised" =>
          \/ batch.attempted = <<>> /\ ret = load_and_prepare_data(df)
          \/ AllAttempted /\ ret.msg = "create_index_file"

\* C20 as stated: an exception in one region does not end the run, every
\* province and then every main region is attempted exactly once, and every
\* attempted region whose generation did not fail has its report written.
C20_EveryRegionWithoutErrorHasReport ==
    /\ AttemptsInOrderOnce
    /\ \A k \in 1..Len(batch.attempted) : ~AttemptFailed(k) => ReportWritten(k)

\* C20, amended: an exception in one region does not end the run, every
\* province and then every main region is attempted exactly once, and every
\* attempted region that has rows in the data and whose generation did not
\* fail has its report written; a region without rows (a main region the
\* data does not hold) is attempted without an error and without a report.
C20_EveryRegionWithDataAndWithoutErrorHasReport ==
    /\ AttemptsInOrderOnce
    /\ \A k \in 1..Len(batch.attempted) :
          /\ (HasRows(batch.attempted[k]) /\ ~AttemptFailed(k)) => ReportWritten(k)
          /\ ~HasRows(batch.attempted[k]) => (~AttemptFailed(k) /\ ~ReportWritten(k))
          /\ AttemptFailed(k) => ~ReportWritten(k)

\* Limburg comes first in the file, Antwerpen's report fails: the run ends
\* with the reports of Limburg and of the Flemish region
C20_Witness ==
    /\ batch.pc = "done"
    /\ Len(df.rows) = 3
    /\ df.rows[1]["regio"] = PROVINCIE_LIMBURG
    /\ batch.attempted = <<PROVINCIE_ANTWERPEN, PROVINCIE_LIMBURG, VLAAMS_GEWEST,
                           WAALS_GEWEST, BRUSSELS_HOOFDSTEDELIJK_GEWEST>>
    /\ batch.errors = <<PROVINCIE_ANTWERPEN>>
    /\ batch.files = {output_file(PROVINCIE_LIMBURG), output_file(VLAAMS_GEWEST), index_file}
    /\ ret = Return(<<Some(output_file(PROVINCIE_LIMBURG)), Some(output_file(VLAAMS_GEWEST)),
                      None, None>>)

(***************************************************************************)
(* Properties of the loaded table (Spec)                                   *)
(***************************************************************************)
\* C22: after load_and_prepare_data every row of the CSV content is a row
\* of the loaded table, with aantal_flats = alle_woningen - aantal_huizen,
\* where alle_woningen and aantal_huizen are the row's two counts; a
\* negative difference is stored as it is.
C22_FlatsIsTotalMinusHouses ==
    (call.fn = "load_and_prepare_data" /\ ~Raised(ret)) =>
        /\ Len(ret.val.rows) = Len(df.rows)
        /\ \A i \in 1..Len(df.rows) :
              /\ ret.val.rows[i]["alle_woningen"] = df.rows[i]["aantal woningen"]
              /\ ret.val.rows[i]["aantal_huizen"] = df.rows[i]["aantal gebouwen met een woning"]
              /\ ret.val.rows[i]["aantal_flats"]
                    = ret.val.rows[i]["alle_woningen"] - ret.val.rows[i]["aantal_huizen"]

\* 5 dwellings in 9 one-dwelling buildings: aantal_flats is -4
C22_Witness ==
    /\ call.fn = "load_and_prepare_data"
    /\ ~Raised(ret)
    /\ \E i \in 1..Len(df.rows) :
          /\ df.rows[i]["aantal woningen"] = 5
          /\ df.rows[i]["aantal gebouwen met een woning"] = 9
          /\ ret.val.rows[i]["aantal_flats"] = -4

(***************************************************************************)
(* SpecReport: up to MaxReports calls of create_region_report, one after   *)
(* the other on one generator, for any regions in any order.  The CSV      *)
(* content is any table of at most MaxReportRows rows of ReportSourceRows; *)
(* the first call loads it.  Whether rendering or saving raises is the     *)
(* environment's choice at every call.                                     *)
(***************************************************************************)
MaxReportRows == 2
MaxReports == 2

ReportSourceRows ==
    { SourceRow(VLAAMS_GEWEST, 2023, <<"J","a","n","u","a","r","i">>, 100, 40),
      SourceRow(VLAAMS_GEWEST, 2023, <<"M","a","a","r","t">>, 120, 60),
      SourceRow(VLAAMS_GEWEST, 2024, <<"A","p","r","i","l">>, 130, 70),
      SourceRow(VLAAMS_GEWEST, 2014, <<"D","e","c","e","m","b","e","r">>, 7, 3),
      SourceRow(PROVINCIE_ANTWERPEN, 2015, <<"J","u","l","i">>, 11, 20),
      SourceRow(VLAAMS_GEWEST, 2023, <<"S","m","a","r","c","h">>, 9, 2) }

ReportTables ==
    {TableOf(rows) : rows \in UNION {[1..k -> ReportSourceRows] : k \in 0..MaxReportRows}}

ReportRegions == {VLAAMS_GEWEST, PROVINCIE_ANTWERPEN, WAALS_GEWEST}

InitReport ==
    /\ df \in ReportTables
    /\ call = NoCall
    /\ ret = Return(<<>>)
    /\ batch = NoBatch

\* What a call of create_region_report leaves behind: the region in the
\* list of calls and, when it returned a file, the file with its content
report_effects(b, region_name, r) ==
    IF Raised(r) THEN [b EXCEPT !.attempted = Append(@, region_name)]
    ELSE [b EXCEPT !.attempted = Append(@, region_name),
                   !.files = @ \cup PathOf(r.val),
                   !.saved = @ \o WritesOf(r.val)]

\* The path create_region_report returns (None for a region without rows),
\* or the exception it raises
report_return(r) == IF Raised(r) THEN r ELSE Return(PathOf(r.val))

ReportCall(region_name, s) ==
    /\ call' = [fn |-> "create_region_report", args |-> <<region_name>>]
    /\ ret' = report_return(s.ret)
    /\ df' = s.gen.data
    /\ batch' = report_effects([batch EXCEPT !.standardized_data = s.gen.standardized_data],
                               region_name, s.ret)

\* generator.create_region_report(region_name, output_dir)
CreateRegionReport ==
    /\ batch.pc = "idle"
    /\ Len(batch.attempted) < MaxReports
    /\ \E region_name \in ReportRegions, fails \in BOOLEAN :
          ReportCall(region_name,
                     create_region_report(Generator(df, batch.standardized_data),
                                          region_name, fails))

NextReport == CreateRegionReport

SpecReport == InitReport /\ [][NextReport]_vars

(***************************************************************************)
(* Properties of a region report (SpecReport)                              *)
(***************************************************************************)
\* The content of the report of a region as a generator that has generated
\* nothing yet computes it from the CSV content
FreshContent(region_name) ==
    html_content(region_data_of(load_and_prepare_data(df).val, region_name), region_name)

\* C21: a call of create_region_report leaves the CSV content as it was
\* and, once loaded, the standardized table as it was; the report it
\* saves is the one a fresh generator computes for the region, whatever
\* regions were generated before and in whatever order.
C21_SharedTablesUnchanged ==
    [][ /\ df' = df
        /\ batch.standardized_data # None => batch'.standardized_data = batch.standardized_data
        /\ (~Raised(ret') /\ ret'.val # None) =>
              /\ batch'.standardized_data = Some(load_and_prepare_data(df).val)
              /\ Len(batch'.saved) = Len(batch.saved) + 1
              /\ batch'.saved[Len(batch'.saved)].html_content = FreshContent(call'.args[1])
      ]_vars

\* The report of the Flemish region, generated after the report of
\* Antwerpen, shows the 100 dwellings of the region
C21_Witness ==
    /\ batch.attempted = <<PROVINCIE_ANTWERPEN, VLAAMS_GEWEST>>
    /\ Len(batch.saved) = 2
    /\ batch.saved[2].html_content.region_name = VLAAMS_GEWEST
    /\ batch.saved[2].html_content.stats.total_permits = 100
    /\ batch.saved[1].html_content.stats.total_permits = 11

\* The rows of the CSV content of the region from 2015 on
RegionRowsFrom2015(region_name) ==
    {i \in 1..Len(df.rows) : df.rows[i]["regio"] = region_name /\ df.rows[i]["jaar"] >= 2015}

\* C26: in every saved region report the Totaal cells of the year rows of
\* the year x quarter table add up to total_permits, and both are the
\* number of dwellings of the region's rows with year >= 2015, each row
\* counted once.
C26_TableTotalIsTotalPermits ==
    \A k \in 1..Len(batch.saved) :
        /\ SumSeq([p \in 1..Len(batch.saved[k].html_content.quarterly_table) |->
                      batch.saved[k].html_content.quarterly_table[p][6]])
              = batch.saved[k].html_content.stats.total_permits
        /\ batch.saved[k].html_content.stats.total_permits
              = SumOver(RegionRowsFrom2015(batch.saved[k].html_content.region_name),
                        "aantal woningen")

\* A report over a row of 2014 (7 dwellings) and a row of 2023 (100): the
\* table has the one year row 2023 and both totals are 100
C26_Witness ==
    /\ Len(batch.saved) >= 1
    /\ Len(df.rows) = 2
    /\ df.rows[1]["jaar"] = 2014
    /\ df.rows[2]["jaar"] = 2023
    /\ batch.saved[1].html_content.quarterly_table = << <<2023, 100, 0, 0, 0, 100>> >>
    /\ batch.saved[1].html_content.stats.total_permits = 100

(***************************************************************************)
(* Properties of the files of a batch run (SpecBatch)                      *)
(***************************************************************************)
\* The writes of the index file among the files saved in the run
IndexWrites == {k \in 1..Len(batch.saved) : batch.saved[k].file = index_file}

\* C24: every entry of the list generate_all_reports returns is the path of
\* a report file written in the run, and the list is as long as the number
\* of report files written: a region without rows or with a failed report
\* has no entry.
C24_ReturnedListIsFilesWritten ==
    batch.pc = "done" =>
        /\ \A k \in 1..Len(ret.val) :
              /\ ret.val[k] # None
              /\ ret.val[k] \subseteq batch.files
        /\ Len(ret.val) = Cardinality(batch.files \ {index_file})

\* C25: every link of the index page is the name of a report file written
\* in the run: a region whose report failed or was skipped has no link.
C25_IndexLinksPointToWrittenReports ==
    \A k \in IndexWrites :
        \A link \in Range(batch.saved[k].html_content.provinces)
                       \cup Range(batch.saved[k].html_content.regions) :
            link \in batch.files

\* C28: the index file is written at most once, as the last file of the
\* run and after every province and every main region has been attempted;
\* a run that ends without an exception has written it, whether or not
\* region reports failed.
C28_IndexWrittenOnceAfterAllAttempts ==
    /\ Cardinality(IndexWrites) <= 1
    /\ \A k \in IndexWrites : k = Len(batch.saved) /\ AllAttempted
    /\ batch.pc = "done" => (Cardinality(IndexWrites) = 1 /\ index_file \in batch.files)
    /\ batch.pc \in {"provinces", "regions"} => IndexWrites = {}

\* Both regions of the data failed: the index file is the only file
C28_Witness ==
    /\ batch.pc = "done"
    /\ batch.errors = <<PROVINCIE_ANTWERPEN, VLAAMS_GEWEST>>
    /\ batch.files = {index_file}
    /\ Len(batch.saved) = 1
    /\ batch.saved[1].file = index_file

(***************************************************************************)
(* SpecFiles: generate_all_reports on tables of at most MaxFileRows rows   *)
(* whose provinces have names that differ in a space, a slash or an        *)
(* underscore only.                                                        *)
(***************************************************************************)
MaxFileRows == 2

PROVINCIE_A_B == <<"P","R","O","V","I","N","C","I","E"," ","A"," ","B">>
PROVINCIE_A_SLASH_B == <<"P","R","O","V","I","N","C","I","E"," ","A","/","B">>
PROVINCIE_A_UNDERSCORE_B == <<"P","R","O","V","I","N","C","I","E"," ","A","_","B">>

FileRows ==
    { SourceRow(PROVINCIE_A_B, 2023, <<"J","a","n","u","a","r","i">>, 20, 5),
      SourceRow(PROVINCIE_A_SLASH_B, 2023, <<"J","a","n","u","a","r","i">>, 30, 6),
      SourceRow(PROVINCIE_A_UNDERSCORE_B, 2023, <<"J","a","n","u","a","r","i">>, 40, 7),
      SourceRow(PROVINCIE_ANTWERPEN, 2023, <<"J","a","n","u","a","r","i">>, 10, 4),
      SourceRow(VLAAMS_GEWEST, 2023, <<"J","a","n","u","a","r","i">>, 100, 40) }

FileTables ==
    {TableOf(rows) : rows \in UNION {[1..k -> FileRows] : k \in 0..MaxFileRows}}

InitFiles ==
    /\ df \in FileTables
    /\ call = NoCall
    /\ ret = Return(<<>>)
    /\ batch = NoBatch

SpecFiles == InitFiles /\ [][NextBatch]_vars

\* C27: the reports of two distinct regions are two distinct files: no
\* report file is written twice in a run, and no two links of the index
\* page are the same.
C27_DistinctRegionsDistinctFiles ==
    /\ \A j, k \in 1..Len(batch.saved) :
          j # k => batch.saved[j].file # batch.saved[k].file
    /\ \A k \in IndexWrites :
          \A i, j \in 1..Len(batch.saved[k].html_content.provinces) :
              i # j => batch.saved[k].html_content.provinces[i]
                          # batch.saved[k].html_content.provinces[j]

====
